---------------------------- MODULE Spec2Model ----------------------------
(***************************************************************************)
(* Model of Slotenbot.py: the SQLite record store of the "afwerking" bot   *)
(* (table retours), the handlers that drive it, and the chat platform the  *)
(* handlers talk to.                                                       *)
(*                                                                         *)
(* The specifications share the variables:                                 *)
(*   SpecStore  the store functions called directly with arbitrary         *)
(*              arguments (the Record Store contract);                     *)
(*   SpecList   get_retours_paginated applied page after page to stores    *)
(*              large enough to span several pages;                        *)
(*   Spec       the bot creating records and changing their status: the    *)
(*              handlers of the form, of the status buttons and of the     *)
(*              status list, fed by operator events and the platform's     *)
(*              answers;                                                   *)
(*   SpecForm   the form that creates a record and its ways out;           *)
(*   SpecEdit   the edit and delete buttons under the messages of two      *)
(*              records;                                                   *)
(*   SpecPaged  the two lists of a group of eleven records, page by page,  *)
(*              with status toggles and a deletion;                        *)
(*   SpecIdle   the form with the idle timeout of its conversation;        *)
(*   SpecWrites the four handlers that write and then render;              *)
(*   SpecStray  the status buttons pressed for a record the group does     *)
(*              not have;                                                  *)
(*   SpecPager  the page buttons of the list keyboards;                    *)
(*   SpecParse  the text of a record, formatted and parsed back;           *)
(*   SpecRetouch a record's status changed from the list while its edit    *)
(*              waits for the new value;                                   *)
(*   SpecToggle two overlapping toggles of one record's status;            *)
(*   SpecGroups one operator's forms in two groups at a time.              *)
(***************************************************************************)
EXTENDS Integers, Sequences, FiniteSets, TLC

(***************************************************************************)
(* Bounds of the model.                                                    *)
(***************************************************************************)
\* rows ever inserted in SpecStore (AUTOINCREMENT never reuses an id)
MaxId == 3
\* seconds the clock can advance (CURRENT_TIMESTAMP has a 1 s resolution)
MaxClock == 1
\* store calls made in one behaviour of SpecStore
MaxCalls == 3
\* a handler that posts runs while the chat's next message id is at most this,
\* one that posts only when it fails also at the id after
MaxMsg == 3
\* Spec: platform calls that fail for a passing reason in one behaviour
MaxFails == 1
\* rows of the stores SpecList pages through
MaxListRows == 14
\* pages SpecList asks for, also beyond the last one
MaxPage == 3
\* SpecEdit: a handler runs while the chat's next message id is at most this
MaxEditMsg == 9
\* SpecPaged: the records created in g1 before it starts
PagedRows == 11
\* SpecPaged: a handler runs while at most this many messages were posted
MaxPagedPosts == 2
\* SpecPaged: records deleted, and records whose status differs from the start
MaxDeleted == 1
MaxToggled == 1

(***************************************************************************)
(* Values.                                                                 *)
(***************************************************************************)
\* chat ids of the groups (chat_id column)
Chats == {"g1", "g2"}
\* message ids the store functions are called with in SpecStore
MsgIds == {1, 2}
\* free text typed by operators
Texts == {"a", "b"}
\* per_page default of get_retours_paginated, and the value every caller passes
PER_PAGE == 10

\* columns of the table retours, in the order of SELECT * (CREATE TABLE, then
\* ALTER TABLE ... ADD COLUMN statut)
Columns == {"id", "message_id", "chat_id", "nom_client", "adresse",
            "description", "materiel", "date", "date_creation", "statut"}

\* the two statuses the handlers write
Statuts == {"en_attente", "fait"}

\* fetchone() with no matching row: None, here a row with the impossible id 0
None ==
  [id |-> 0, message_id |-> 0, chat_id |-> "", nom_client |-> "", adresse |-> "",
   description |-> "", materiel |-> "", date |-> "", date_creation |-> 0,
   statut |-> ""]

VARIABLES
  db,        \* the SQLite file: [retours: set of rows, seq: last AUTOINCREMENT id]
  now,       \* the clock CURRENT_TIMESTAMP reads, in seconds
  tieOrder,  \* how the engine orders rows whose ORDER BY keys are equal
  calls,     \* SpecStore: number of calls made so far
  last,      \* SpecStore: the last call, its arguments and its outcome
  paging,    \* SpecList: the last get_retours_paginated call and the pages seen
  tg,        \* the chat platform: the bot's messages, message ids, migrated groups
  user_data, \* context.user_data of each operator: a dict
  conv,      \* ConversationHandler's state of each (chat, operator)
  ev,        \* the last handler run, what it showed and what it raised
  sess       \* of each (chat, operator): the steps of the form since its start

\* the variables of the bot, which the store harnesses leave alone
botVars == <<tg, user_data, conv, ev, sess>>

vars == <<db, now, tieOrder, calls, last, paging, tg, user_data, conv, ev, sess>>

(***************************************************************************)
(* The record store: the module-level database functions.  Each takes the  *)
(* database it opens and returns the database it leaves, the exception it  *)
(* raised ("none" when it returned) and its return value.                  *)
(***************************************************************************)

\* WhereKey without the chat_id condition: WHERE message_id = ?
WhereKey_AnyChat(rows, message_id, chat_id) ==
  {r \in rows : r.message_id = message_id}

\* rows selected by WHERE message_id = ? AND chat_id = ?
WhereKey(rows, message_id, chat_id) ==
  {r \in rows : r.message_id = message_id /\ r.chat_id = chat_id}

\* UNIQUE(message_id, chat_id): whether the table with row r written as r2
\* (r = None: inserted) would hold two rows with r2's key
UniqueFails(rows, r, r2) ==
  \E o \in rows \ {r} : o.message_id = r2.message_id /\ o.chat_id = r2.chat_id

\* add_retour_to_db on a table declared without UNIQUE(message_id, chat_id)
add_retour_NoUnique(d, t, message_id, chat_id, nom, adresse, description, materiel, date) ==
  [db |-> [retours |-> d.retours \cup
                        {[id |-> d.seq + 1, message_id |-> message_id,
                          chat_id |-> chat_id, nom_client |-> nom, adresse |-> adresse,
                          description |-> description, materiel |-> materiel,
                          date |-> date, date_creation |-> t, statut |-> "en_attente"]},
           seq |-> d.seq + 1],
   err |-> "none"]

add_retour_to_db(d, t, message_id, chat_id, nom, adresse, description, materiel, date) ==
  LET row == [id |-> d.seq + 1, message_id |-> message_id, chat_id |-> chat_id,
              nom_client |-> nom, adresse |-> adresse, description |-> description,
              materiel |-> materiel, date |-> date, date_creation |-> t,
              statut |-> "en_attente"]
  IN IF UniqueFails(d.retours, None, row)
       THEN [db |-> d, err |-> "IntegrityError"]
       ELSE [db |-> [retours |-> d.retours \cup {row}, seq |-> d.seq + 1],
             err |-> "none"]

ALLOWED_FIELDS == {"description", "materiel", "nom_client", "adresse", "date"}

\* update_retour_in_db without the ALLOWED_FIELDS check
update_retour_NoCheck(d, message_id, chat_id, field, value) ==
  [db |-> [d EXCEPT !.retours =
             {IF r \in WhereKey(d.retours, message_id, chat_id)
                THEN [r EXCEPT ![field] = value] ELSE r : r \in d.retours}],
   err |-> "none"]

update_retour_in_db(d, message_id, chat_id, field, value) ==
  IF field \notin ALLOWED_FIELDS
    THEN [db |-> d, err |-> "ValueError"]
    ELSE [db |-> [d EXCEPT !.retours =
                    {IF r \in WhereKey(d.retours, message_id, chat_id)
                       THEN [r EXCEPT ![field] = value] ELSE r : r \in d.retours}],
          err |-> "none"]

\* delete_retour_from_db with DELETE FROM retours WHERE message_id = ?
delete_retour_AnyChat(d, message_id, chat_id) ==
  [db |-> [d EXCEPT !.retours = {r \in d.retours : r.message_id # message_id}],
   err |-> "none"]

delete_retour_from_db(d, message_id, chat_id) ==
  [db |-> [d EXCEPT !.retours = d.retours \ WhereKey(d.retours, message_id, chat_id)],
   err |-> "none"]

\* update_statut_in_db that flips the stored status instead of writing statut
update_statut_Flip(d, message_id, chat_id, statut) ==
  [db |-> [d EXCEPT !.retours =
             {IF r \in WhereKey(d.retours, message_id, chat_id)
                THEN [r EXCEPT !.statut = IF r.statut = "fait" THEN "en_attente" ELSE "fait"]
                ELSE r : r \in d.retours}],
   err |-> "none"]

\* update_statut_in_db that also stamps the row: SET statut = ?, date_creation
\* one second later
update_statut_Stamp(d, message_id, chat_id, statut) ==
  [db |-> [d EXCEPT !.retours =
             {IF r \in WhereKey(d.retours, message_id, chat_id)
                THEN [r EXCEPT !.statut = statut, !.date_creation = @ + 1]
                ELSE r : r \in d.retours}],
   err |-> "none"]

update_statut_in_db(d, message_id, chat_id, statut) ==
  [db |-> [d EXCEPT !.retours =
             {IF r \in WhereKey(d.retours, message_id, chat_id)
                THEN [r EXCEPT !.statut = statut] ELSE r : r \in d.retours}],
   err |-> "none"]

\* get_retour_by_message_id with SELECT * FROM retours WHERE message_id = ?
get_retour_AnyChat(d, message_id, chat_id) ==
  LET found == {r \in d.retours : r.message_id = message_id}
  IN IF found = {} THEN None ELSE CHOOSE r \in found : TRUE

get_retour_by_message_id(d, message_id, chat_id) ==
  LET found == WhereKey(d.retours, message_id, chat_id)
  IN IF found = {} THEN None ELSE CHOOSE r \in found : TRUE

get_statut_from_retour(retour) ==
  IF retour.statut # "" THEN retour.statut ELSE "en_attente"

\* ORDER BY date_creation DESC: r1 comes before r2.  The statement names no
\* second key, so rows of the same second come in the engine's scan order.
ComesBefore(r1, r2, tie) ==
  \/ r1.date_creation > r2.date_creation
  \/ /\ r1.date_creation = r2.date_creation
     /\ IF tie = "rowid_asc" THEN r1.id < r2.id ELSE r1.id > r2.id

\* SELECT * FROM retours WHERE chat_id = ? ORDER BY date_creation DESC
SelectOrdered(rows, chat_id, tie) ==
  LET S == {r \in rows : r.chat_id = chat_id}
      Pos(r) == 1 + Cardinality({o \in S : ComesBefore(o, r, tie)})
  IN [i \in 1..Cardinality(S) |-> CHOOSE r \in S : Pos(r) = i]

get_all_retours(d, chat_id, tie) == SelectOrdered(d.retours, chat_id, tie)

Min(a, b) == IF a < b THEN a ELSE b

\* get_retours_paginated with OFFSET page instead of page * per_page
get_retours_paginated_BadOffset(d, chat_id, page, per_page, tie) ==
  LET offset == page
      total == Cardinality({r \in d.retours : r.chat_id = chat_id})
      all == SelectOrdered(d.retours, chat_id, tie)
      retours_list == SubSeq(all, offset + 1, Min(offset + per_page, Len(all)))
      total_pages == IF total > 0 THEN (total + per_page - 1) \div per_page ELSE 0
  IN [retours |-> retours_list, total |-> total, total_pages |-> total_pages]

\* get_retours_paginated with total_pages rounded down
get_retours_paginated_Floor(d, chat_id, page, per_page, tie) ==
  LET offset == page * per_page
      total == Cardinality({r \in d.retours : r.chat_id = chat_id})
      all == SelectOrdered(d.retours, chat_id, tie)
      retours_list == SubSeq(all, offset + 1, Min(offset + per_page, Len(all)))
      total_pages == IF total > 0 THEN total \div per_page ELSE 0
  IN [retours |-> retours_list, total |-> total, total_pages |-> total_pages]

get_retours_paginated(d, chat_id, page, per_page, tie) ==
  LET offset == page * per_page
      total == Cardinality({r \in d.retours : r.chat_id = chat_id})
      all == SelectOrdered(d.retours, chat_id, tie)
      retours_list == SubSeq(all, offset + 1, Min(offset + per_page, Len(all)))
      total_pages == IF total > 0 THEN (total + per_page - 1) \div per_page ELSE 0
  IN [retours |-> retours_list, total |-> total, total_pages |-> total_pages]

\* collect_extra_info, after ChatMigrated: UPDATE retours SET chat_id = ? WHERE
\* message_id = ? AND chat_id = ?  (an IntegrityError is caught and logged)
update_chat_id_in_db(d, message_id, old_chat_id, new_chat_id) ==
  LET hit == WhereKey(d.retours, message_id, old_chat_id)
  IN IF \E r \in hit : UniqueFails(d.retours, r, [r EXCEPT !.chat_id = new_chat_id])
       THEN [db |-> d, err |-> "IntegrityError"]
       ELSE [db |-> [d EXCEPT !.retours =
                       {IF r \in hit THEN [r EXCEPT !.chat_id = new_chat_id] ELSE r
                          : r \in d.retours}],
             err |-> "none"]


(***************************************************************************)
(* The chat platform (Telegram), seen through context.bot, query and       *)
(* update.message.  A value t holds                                        *)
(*   t.msgs      the bot's messages that exist, by <<chat id, message id>>, *)
(*   t.next      the id the next message of each chat gets,                *)
(*   t.migrated  for a group turned supergroup, the supergroup's chat id,  *)
(*   t.fails     the calls it has refused for a passing reason.            *)
(* A call takes the platform and returns the platform it leaves, the       *)
(* exception it raised ("none": it returned) and its result.  The fault f  *)
(* of a handler run makes the call at one site fail, or the group migrate  *)
(* just before it.                                                         *)
(***************************************************************************)
\* the operators
Users == {"u1"}
\* the chats of the bot: group g1, and the supergroup s1 it becomes
BotChats == {"g1", "s1"}

NoFault == [at |-> 0, kind |-> "none"]

\* a message: what it shows and the keyboard under it.  kind is
\*   "plain"     text without keyboard
\*   "menu"      text with get_menu_keyboard()
\*   "progress"  the form's status message: get_cancel_keyboard(), with skip
\*               get_cancel_keyboard_with_skip()
\*   "temp"      "Bezig met toevoegen..." with get_retour_keyboard("en_attente")
\*   "retour"    format_retour_message(...) with get_retour_keyboard(statut)
\*   "modifier"  the text of a "temp" or "retour" message with get_modifier_keyboard()
\*   "confirm"   "Bevestig verwijdering?" with get_confirmation_keyboard()
\*   "statlist"  the status list of a page with get_liste_statut_keyboard(...)
\*   "viewlist"  the list of records of a page with get_pagination_keyboard(...)
Msg(kind, text) ==
  [kind |-> kind, text |-> text, skip |-> FALSE, statut |-> "", adresse |-> "",
   materiel |-> "", extra |-> "", date_creation |-> 0, sel |-> <<>>, page |-> 0,
   pages |-> 0, total |-> 0]

InitPlatform ==
  [msgs |-> [k \in {} |-> Msg("plain", "")],
   next |-> [c \in BotChats |-> 1],
   migrated |-> [c \in BotChats |-> ""],
   fails |-> 0]

\* group g1 becomes supergroup s1: every call addressed to g1 raises ChatMigrated
DoMigrate(t, chat) ==
  IF chat = "g1" /\ t.migrated[chat] = ""
    THEN [t EXCEPT !.migrated[chat] = "s1"]
    ELSE t

\* the platform when the call at site starts
AtSite(t, f, site, chat) ==
  IF f.at = site /\ f.kind = "migrate" THEN DoMigrate(t, chat) ELSE t

\* what a call that raises returns
Raise(t, err, to) == [tg |-> t, err |-> err, to |-> to, message_id |-> 0, chat_id |-> ""]

\* the call at site is the one the fault of the run refuses (network, flood control)
Refused(t, f, site) ==
  Raise([t EXCEPT !.fails = @ + 1], "TelegramError", "")

\* bot.send_message / message.reply_text
send_message(t, f, site, chat, m) ==
  LET t1 == AtSite(t, f, site, chat)
  IN IF f.at = site /\ f.kind = "fail" THEN Refused(t1, f, site)
     ELSE IF t1.migrated[chat] # "" THEN Raise(t1, "ChatMigrated", t1.migrated[chat])
     ELSE [tg |-> [t1 EXCEPT !.msgs = (<<chat, t1.next[chat]>> :> m) @@ t1.msgs,
                             !.next[chat] = t1.next[chat] + 1],
           err |-> "none", to |-> "", message_id |-> t1.next[chat], chat_id |-> chat]

\* bot.edit_message_text / query.edit_message_text / query.edit_message_reply_markup
edit_message(t, f, site, chat, message_id, m) ==
  LET t1 == AtSite(t, f, site, chat)
  IN IF f.at = site /\ f.kind = "fail" THEN Refused(t1, f, site)
     ELSE IF t1.migrated[chat] # "" THEN Raise(t1, "ChatMigrated", t1.migrated[chat])
     ELSE IF <<chat, message_id>> \notin DOMAIN t1.msgs THEN Raise(t1, "BadRequest", "")
     \* "Message is not modified": the platform refuses an edit that changes nothing
     ELSE IF t1.msgs[<<chat, message_id>>] = m THEN Raise(t1, "BadRequest", "")
     ELSE [tg |-> [t1 EXCEPT !.msgs[<<chat, message_id>>] = m],
           err |-> "none", to |-> "", message_id |-> message_id, chat_id |-> chat]

\* bot.delete_message
delete_message(t, f, site, chat, message_id) ==
  LET t1 == AtSite(t, f, site, chat)
  IN IF f.at = site /\ f.kind = "fail" THEN Refused(t1, f, site)
     ELSE IF t1.migrated[chat] # "" THEN Raise(t1, "ChatMigrated", t1.migrated[chat])
     ELSE IF <<chat, message_id>> \notin DOMAIN t1.msgs THEN Raise(t1, "BadRequest", "")
     ELSE [tg |-> [t1 EXCEPT !.msgs = [k \in DOMAIN t1.msgs \ {<<chat, message_id>>}
                                         |-> t1.msgs[k]]],
           err |-> "none", to |-> "", message_id |-> message_id, chat_id |-> chat]

(***************************************************************************)
(* context.user_data: a dict from keys to values.                          *)
(***************************************************************************)
EmptyDict == [k \in {} |-> 0]
Has(d, k) == k \in DOMAIN d
Put(d, k, v) == [x \in DOMAIN d \cup {k} |-> IF x = k THEN v ELSE d[x]]
\* dict.get(k), none standing for None
Get(d, k, none) == IF k \in DOMAIN d THEN d[k] ELSE none

\* str.strip() of the texts operators type
strip(text) ==
  CASE text = " a " -> "a"
    [] text = " b " -> "b"
    [] text = " c " -> "c"
    [] OTHER -> text

\* what a handler run showed: nothing yet
\* step is what the operator did, input the text typed, msg the id of the message
\* whose button was pressed, sel the message id a button of the status list
\* names; run alternates from one handler run to the next
NoEvent ==
  [handler |-> "none", step |-> "none", input |-> "", msg |-> 0, sel |-> 0,
   chat |-> "",
   user |-> "", insert |-> <<>>, dberr |-> "none", notice |-> "none",
   raised |-> "none", run |-> 0]

\* no form started: the steps taken and the texts typed at them
NoSession == [steps |-> <<>>, adresse |-> "", materiel |-> ""]

InitBot ==
  /\ tg = InitPlatform
  /\ user_data = [u \in Users |-> EmptyDict]
  /\ conv = [k \in BotChats \X Users |-> "END"]
  /\ ev = NoEvent
  /\ sess = [k \in BotChats \X Users |-> NoSession]

(***************************************************************************)
(* The handlers.  A handler takes the database d, the platform t, the      *)
(* fault f of the run, the chat of the update and the operator's           *)
(* user_data ud, and returns what it leaves:                               *)
(*   db, tg, ud   the database, the platform and user_data after the run,  *)
(*   ret          the conversation state it returns ("same": none),        *)
(*   raised       the exception that left it ("none": it returned),        *)
(*   insert       the <<message_id, chat_id>> it called add_retour_to_db   *)
(*                with (<<>>: no call),                                    *)
(*   dberr        the exception a store call raised inside it,             *)
(*   notice       what it showed at its end.                               *)
(* Statements run in sequence: the result of a call is named by            *)
(* Only({ rest(x) : x \in {call} }), the rest of the code reading x.       *)
(* query.answer() shows nothing that lasts and is not modelled.            *)
(***************************************************************************)
Only(S) == CHOOSE x \in S : TRUE

Result(d, t, ud, ret, notice) ==
  [db |-> d, tg |-> t, ud |-> ud, ret |-> ret, raised |-> "none", insert |-> <<>>,
   dberr |-> "none", notice |-> notice]

Raised(d, t, ud, err) ==
  [db |-> d, tg |-> t, ud |-> ud, ret |-> "same", raised |-> err, insert |-> <<>>,
   dberr |-> "none", notice |-> "none"]

\* text with get_menu_keyboard()
MenuMsg(text) == Msg("menu", text)

\* the form's status message: the answers given so far and the question asked
ProgressMsg(retour, current_question, show_skip) ==
  [Msg("progress", current_question) EXCEPT
     !.adresse = Get(retour, "adresse", ""),
     !.materiel = Get(retour, "materiel", ""),
     !.extra = Get(retour, "extra_info", ""),
     !.skip = show_skip]

\* "Bezig met toevoegen..." with get_retour_keyboard("en_attente")
TempMsg == [Msg("temp", "Bezig met toevoegen") EXCEPT !.statut = "en_attente"]

\* the text of a record: the extra line only when extra_info is not empty, the
\* status line from statut, the date line from date_creation (-1: None, "Onbekend")
format_retour_message(adresse, description, materiel, statut, date_creation, extra_info) ==
  [Msg("retour", "AFWERKING") EXCEPT
     !.adresse = adresse, !.materiel = materiel, !.extra = extra_info,
     !.statut = IF statut = "fait" THEN "fait" ELSE "en_attente",
     !.date_creation = date_creation]

\* get_retour_keyboard(statut): the callback data of its status button
get_retour_keyboard(statut) ==
  IF statut = "en_attente" THEN "statut_fait" ELSE "statut_attente"

\* the status list: one button per row of the page, changer_statut_select_<message_id>_<page>
get_liste_statut_keyboard(text, retours, page, total_pages, total) ==
  [Msg("statlist", text) EXCEPT
     !.sel = [i \in DOMAIN retours |->
                [message_id |-> retours[i].message_id,
                 statut |-> get_statut_from_retour(retours[i]),
                 adresse |-> retours[i].adresse]],
     !.page = page, !.pages = total_pages, !.total = total]

\* try: send_message(chat) / except ChatMigrated as e: send_message(e.migrate_to_chat_id)
send_message_retry(t, f, site, chat, m) ==
  Only({IF s.err = "ChatMigrated" THEN send_message(s.tg, NoFault, 0, s.to, m) ELSE s
          : s \in {send_message(t, f, site, chat, m)}})

update_status_message(t, f, site, ud, current_question, show_skip) ==
  LET message_id == Get(ud, "status_message_id", 0)
      chat_id == Get(ud, "status_chat_id", "")
      m == ProgressMsg(Get(ud, "retour", EmptyDict), current_question, show_skip)
  IN IF message_id = 0 \/ chat_id = "" THEN [tg |-> t, ud |-> ud]
     ELSE Only({IF e.err = "ChatMigrated"
                  THEN [tg |-> edit_message(e.tg, NoFault, 0, e.to, message_id, m).tg,
                        ud |-> Put(ud, "status_chat_id", e.to)]
                  ELSE [tg |-> e.tg, ud |-> ud]
                  : e \in {edit_message(t, f, site, chat_id, message_id, m)}})

\* error_handler of main: ChatMigrated passes in silence, any other exception
\* is answered in the chat of the update with a text without keyboard
error_handler(t, chat, raised) ==
  IF raised \in {"none", "ChatMigrated"} THEN t
  ELSE send_message_retry(t, NoFault, 0, chat, Msg("plain", "Er is een fout opgetreden")).tg

\* afwerken, lines 844-859: delete the status message of the form, if any
afwerken_cleanup(t, f, ud) ==
  LET message_id == Get(ud, "status_message_id", 0)
      chat_id == Get(ud, "status_chat_id", "")
  IN IF message_id = 0 \/ chat_id = "" THEN t
     ELSE Only({IF d1.err = "ChatMigrated"
                  THEN delete_message(d1.tg, NoFault, 0, d1.to, message_id).tg
                  ELSE d1.tg
                  : d1 \in {delete_message(t, f, 1, chat_id, message_id)}})

\* afwerken, lines 861-880: clear user_data and show the menu
afwerken_menu(d, t, f, chat) ==
  Only({IF s.err # "none" THEN Raised(d, s.tg, EmptyDict, s.err)
        ELSE Result(d, s.tg, EmptyDict, "same", "menu")
          : s \in {send_message_retry(t, f, 2, chat, MenuMsg("Afwerkingen beheer"))}})

\* /afwerken, registered before the ConversationHandler: the conversation
\* state stays as it is
afwerken(d, t, f, chat, ud) ==
  Only({afwerken_menu(d, t1, f, chat) : t1 \in {afwerken_cleanup(t, f, ud)}})

\* button_handler, data == "ajouter_retour", lines 915-919
ajouter_retour_form(d, t, f, chat, message_id, ud, pressed, status_msg) ==
  IF status_msg.err # "none" THEN Raised(d, status_msg.tg, ud, status_msg.err)
  ELSE Only({IF e.err # "none" THEN Raised(d, e.tg, ud2, e.err)
             ELSE Only({Result(d, u.tg, u.ud, "COLLECTING_ADRESSE", "none")
                          : u \in {update_status_message(e.tg, f, 3, ud2, "Adres", FALSE)}})
               \* query.edit_message_reply_markup(reply_markup=None)
               : e \in {edit_message(status_msg.tg, f, 2, chat, message_id,
                                     [pressed EXCEPT !.kind = "plain"])},
                 ud2 \in {Put(Put(ud, "status_message_id", status_msg.message_id),
                              "status_chat_id", status_msg.chat_id)}})

\* button_handler, data == "ajouter_retour"
button_ajouter_retour(d, t, f, chat, message_id, ud) ==
  Only({ajouter_retour_form(d, t, f, chat, message_id, ud1, t.msgs[<<chat, message_id>>],
                            status_msg)
          : status_msg \in {send_message_retry(t, f, 1, chat,
                                               ProgressMsg(EmptyDict, "", FALSE))},
            ud1 \in {Put(ud, "retour", EmptyDict)}})

\* collect_adresse that stores the text as it was typed
collect_adresse_AsTyped(d, t, f, chat, text, ud) ==
  IF ~Has(ud, "retour") THEN Raised(d, t, ud, "KeyError")
  ELSE Only({Only({Result(d, u.tg, u.ud, "COLLECTING_MATERIEL", "none")
                     : u \in {update_status_message(t1, f, 2, ud1, "Materiaal", FALSE)}})
               : t1 \in {AtSite(t, f, 1, chat)},
                 ud1 \in {[ud EXCEPT !["retour"] = Put(@, "adresse", text)]}})

\* update.message.delete() of collect_*: its failure passes
collect_adresse(d, t, f, chat, text, ud) ==
  IF ~Has(ud, "retour") THEN Raised(d, t, ud, "KeyError")
  ELSE Only({Only({Result(d, u.tg, u.ud, "COLLECTING_MATERIEL", "none")
                     : u \in {update_status_message(t1, f, 2, ud1, "Materiaal", FALSE)}})
               : t1 \in {AtSite(t, f, 1, chat)},
                 ud1 \in {[ud EXCEPT !["retour"] = Put(@, "adresse", strip(text))]}})

\* collect_materiel that asks for the address again
collect_materiel_Restart(d, t, f, chat, text, ud) ==
  IF ~Has(ud, "retour") THEN Raised(d, t, ud, "KeyError")
  ELSE Only({Only({Result(d, u.tg, u.ud, "COLLECTING_ADRESSE", "none")
                     : u \in {update_status_message(t1, f, 2, ud1, "Extra informatie",
                                                    TRUE)}})
               : t1 \in {AtSite(t, f, 1, chat)},
                 ud1 \in {[ud EXCEPT !["retour"] = Put(@, "materiel", strip(text))]}})

collect_materiel(d, t, f, chat, text, ud) ==
  IF ~Has(ud, "retour") THEN Raised(d, t, ud, "KeyError")
  ELSE Only({Only({Result(d, u.tg, u.ud, "COLLECTING_EXTRA_INFO", "none")
                     : u \in {update_status_message(t1, f, 2, ud1, "Extra informatie",
                                                    TRUE)}})
               : t1 \in {AtSite(t, f, 1, chat)},
                 ud1 \in {[ud EXCEPT !["retour"] = Put(@, "materiel", strip(text))]}})

\* the except block that logs the exception and posts nothing
creation_failed_Silent(d, t, f, chat, ud, insert, dberr) ==
  [db |-> d, tg |-> t, insert |-> insert, dberr |-> dberr, notice |-> "none"]

\* collect_extra_info, the except block: the failure notice goes to the group
\* of the session, without a retry; an exception of the post is logged
creation_failed(d, t, f, chat, ud, insert, dberr) ==
  LET group_chat_id == IF Get(ud, "status_chat_id", "") # "" THEN ud["status_chat_id"]
                       ELSE chat
  IN Only({[db |-> d, tg |-> n.tg, insert |-> insert, dberr |-> dberr,
            notice |-> IF n.err = "none" THEN "failure" ELSE "failure_lost"]
             : n \in {send_message(t, f, 6, group_chat_id,
                                   MenuMsg("Fout bij het toevoegen"))}})

\* collect_extra_info, lines 1185-1199: the confirmation with the menu
confirm_retour(d, f, chat, ud, key, group_chat_id, sent_message) ==
  IF sent_message.err # "none"
    THEN creation_failed(d, sent_message.tg, f, chat, ud, key, "none")
  ELSE Only({IF c.err # "none" THEN creation_failed(d, c.tg, f, chat, ud, key, "none")
             ELSE [db |-> d, tg |-> c.tg, insert |-> key, dberr |-> "none",
                   notice |-> "added"]
               : c \in {send_message_retry(sent_message.tg, f, 5, group_chat_id,
                                           MenuMsg("Afwerking toegevoegd"))}})

\* the retry of the edit after ChatMigrated without the UPDATE of chat_id
edit_retour_migrated_NoMove(d, f, chat, ud, key, message_text, e1) ==
  Only({confirm_retour(d, f, chat, ud, key, e1.to, e2)
          : e2 \in {edit_message(e1.tg, NoFault, 0, e1.to, key[1], message_text)}})

\* collect_extra_info, lines 1163-1183: the group has migrated under the edit;
\* move the record to the new chat_id (an error of the UPDATE is logged) and
\* edit again
edit_retour_migrated(d, f, chat, ud, key, message_text, e1) ==
  Only({confirm_retour(moved.db, f, chat, ud, key, e1.to, e2)
          : moved \in {update_chat_id_in_db(d, key[1], Get(ud, "status_chat_id", ""),
                                            e1.to)},
            e2 \in {edit_message(e1.tg, NoFault, 0, e1.to, key[1], message_text)}})

\* collect_extra_info, lines 1143-1183: edit the posted message to the record's text
edit_retour(d, t, f, chat, ud, key, retour) ==
  LET retour_db == get_retour_by_message_id(d, key[1], key[2])
      date_creation == IF retour_db # None THEN retour_db.date_creation ELSE -1
      message_text == format_retour_message(retour["adresse"], "", retour["materiel"],
                                            "en_attente", date_creation,
                                            Get(retour, "extra_info", ""))
  IN Only({IF e1.err = "ChatMigrated"
             THEN edit_retour_migrated(d, f, chat, ud, key, message_text, e1)
             ELSE confirm_retour(d, f, chat, ud, key, key[2], e1)
             : e1 \in {edit_message(t, f, 4, key[2], key[1], message_text)}})

\* collect_extra_info, lines 1130-1141: insert the record under the posted
\* message's id and chat
insert_retour(d, tm, f, chat, ud, temp_message) ==
  LET retour == ud["retour"]
      key == <<temp_message.message_id, temp_message.chat_id>>
  IN IF temp_message.err # "none"
       THEN creation_failed(d, temp_message.tg, f, chat, ud, <<>>, "none")
     ELSE IF ~(Has(retour, "adresse") /\ Has(retour, "materiel"))
       THEN creation_failed(d, temp_message.tg, f, chat, ud, <<>>, "none")
     ELSE Only({IF a.err # "none"
                  THEN creation_failed(a.db, temp_message.tg, f, chat, ud, key, a.err)
                  ELSE edit_retour(a.db, temp_message.tg, f, chat, ud, key, retour)
                  : a \in {add_retour_to_db(d, tm, key[1], key[2], "", retour["adresse"],
                                            Get(retour, "extra_info", ""),
                                            retour["materiel"], "Non definie")}})

\* collect_extra_info, the try block: post the record with a temporary text,
\* insert it, edit the message to the record's text, confirm
publish_retour(d, tm, t, f, chat, ud) ==
  LET group_chat_id == IF Get(ud, "status_chat_id", "") # "" THEN ud["status_chat_id"]
                       ELSE chat
  IN Only({insert_retour(d, tm, f, chat, ud, temp_message)
             : temp_message \in {send_message_retry(t, f, 3, group_chat_id, TempMsg)}})

\* finish_retour without context.user_data.clear()
finish_retour_KeepData(d, tm, t, f, chat, ud) ==
  LET message_id == Get(ud, "status_message_id", 0)
      chat_id == Get(ud, "status_chat_id", "")
  IN Only({IF ~Has(ud, "retour") THEN Raised(d, t2, ud, "KeyError")
           ELSE Only({[db |-> p.db, tg |-> p.tg, ud |-> ud, ret |-> "END",
                       raised |-> "none", insert |-> p.insert, dberr |-> p.dberr,
                       notice |-> p.notice]
                        : p \in {publish_retour(d, tm, t2, f, chat, ud)}})
             : t2 \in {IF message_id # 0 /\ chat_id # ""
                         THEN delete_message(t, f, 2, chat_id, message_id).tg
                         ELSE t}})

\* collect_extra_info, lines 1087-1220: delete the status message, publish,
\* clear user_data, END
finish_retour(d, tm, t, f, chat, ud) ==
  LET message_id == Get(ud, "status_message_id", 0)
      chat_id == Get(ud, "status_chat_id", "")
  IN Only({IF ~Has(ud, "retour") THEN Raised(d, t2, ud, "KeyError")
           ELSE Only({[db |-> p.db, tg |-> p.tg, ud |-> EmptyDict, ret |-> "END",
                       raised |-> "none", insert |-> p.insert, dberr |-> p.dberr,
                       notice |-> p.notice]
                        : p \in {publish_retour(d, tm, t2, f, chat, ud)}})
             : t2 \in {IF message_id # 0 /\ chat_id # ""
                         THEN delete_message(t, f, 2, chat_id, message_id).tg
                         ELSE t}})

\* collect_extra_info for a text (passer FALSE) and for the button "Passer"
collect_extra_info(d, tm, t, f, chat, passer, text, ud) ==
  LET extra_info == IF passer THEN "" ELSE strip(text)
      store_extra == ~passer /\ extra_info # ""
  IN IF store_extra /\ ~Has(ud, "retour") THEN Raised(d, t, ud, "KeyError")
     ELSE Only({finish_retour(d, tm, t1, f, chat, ud1)
                  \* update.message.delete(): its failure passes
                  : t1 \in {IF passer THEN t ELSE AtSite(t, f, 1, chat)},
                    ud1 \in {IF store_extra
                               THEN [ud EXCEPT !["retour"] =
                                       Put(@, "extra_info", extra_info)]
                               ELSE ud}})

\* annuler_ajout_handler without context.user_data.clear()
annuler_ajout_KeepData(d, t, f, chat, ud) ==
  Only({[Result(d, s.tg, ud, "same", "no_display") EXCEPT !.raised = s.err]
          : s \in {send_message(t, f, 2, chat, MenuMsg("Toevoegen geannuleerd"))}})

\* annuler_ajout_handler, lines 525-534: clear user_data and tell the group
annuler_ajout_reply(d, f, chat, notice, d1) ==
  Only({[Result(d, s.tg, EmptyDict, "same", notice) EXCEPT !.raised = s.err]
          : s \in {send_message(d1.tg, f, 2, chat, MenuMsg("Toevoegen geannuleerd"))}})

\* the button "Annuleren" of the form, registered before the ConversationHandler:
\* the conversation state stays as it is.  The deletion of the status message
\* is tried once and its failure passes
annuler_ajout_handler(d, t, f, chat, ud) ==
  LET message_id == Get(ud, "status_message_id", 0)
      chat_id == Get(ud, "status_chat_id", "")
  IN IF message_id = 0 \/ chat_id = ""
       THEN annuler_ajout_reply(d, f, chat, "no_display", [tg |-> t])
       ELSE Only({annuler_ajout_reply(d, f, chat,
                                      IF d1.err = "none" THEN "display_deleted"
                                      ELSE "display_left", d1)
                    : d1 \in {delete_message(t, f, 1, chat_id, message_id)}})

\* /cancel, a fallback of the ConversationHandler
cancel(d, t, f, chat, ud) ==
  Only({IF s.err # "none" THEN Raised(d, s.tg, EmptyDict, s.err)
        ELSE Result(d, s.tg, EmptyDict, "END", "cancelled")
          : s \in {send_message(t, f, 1, chat, MenuMsg("Operatie geannuleerd"))}})

\* parse_retour_message: the fields read from the lines of a record's text,
\* and none from any other text
parse_retour_message(m) ==
  IF m.text # "AFWERKING" THEN EmptyDict
  ELSE IF m.extra = ""
    THEN [k \in {"adresse", "materiel"} |-> IF k = "adresse" THEN m.adresse ELSE m.materiel]
  ELSE [k \in {"adresse", "materiel", "extra_info"} |->
          CASE k = "adresse" -> m.adresse
            [] k = "materiel" -> m.materiel
            [] OTHER -> m.extra]

\* button_handler, "modifier_retour": note the pressed record in user_data and
\* put get_modifier_keyboard() under its message
button_modifier_retour(d, t, f, chat, message_id, ud) ==
  LET pressed == t.msgs[<<chat, message_id>>]
      with(retour_db) ==
        LET retour_data ==
              IF retour_db = None THEN parse_retour_message(pressed)
              ELSE [k \in {"adresse", "description", "materiel"} |-> retour_db[k]]
            statut == IF retour_db = None THEN "en_attente"
                      ELSE get_statut_from_retour(retour_db)
        IN Put(Put(Put(Put(ud, "message_id_editing", message_id),
                       "chat_id_editing", chat),
                   "retour_data", retour_data),
               "statut_editing", statut)
  IN Only({Only({IF e.err = "none" THEN Result(d, e.tg, ud2, "SELECTING_ACTION", "none")
                 ELSE Raised(d, e.tg, ud2, e.err)
                   : e \in {edit_message(t, f, 1, chat, message_id,
                                         [pressed EXCEPT !.kind = "modifier"])}})
             : ud2 \in {with(get_retour_by_message_id(d, message_id, chat))}})

\* the question button_handler asks for a field
modif_prompt(modif_type) ==
  CASE modif_type = "adresse" -> Msg("plain", "Nieuw adres")
    [] modif_type = "description" -> Msg("plain", "Nieuwe beschrijving")
    [] OTHER -> Msg("plain", "Nieuw materiaal")

\* button_handler, "modif_adresse", "modif_description", "modif_materiel"
button_modif(d, t, f, chat, message_id, modif_type, ud) ==
  Only({Only({IF e.err = "none" THEN Result(d, e.tg, ud2, "MODIFYING_FIELD", "none")
              ELSE Raised(d, e.tg, ud2, e.err)
                : e \in {edit_message(t, f, 1, chat, message_id,
                                      modif_prompt(modif_type))}})
          : ud2 \in {Put(ud, "modif_type", modif_type)}})

\* a handler that edits the pressed message into a notice with the menu, then
\* clears user_data and ends the conversation
button_notice(d, t, f, site, chat, message_id, ud, text, notice) ==
  Only({IF e.err = "none" THEN Result(d, e.tg, EmptyDict, "END", notice)
        ELSE Raised(d, e.tg, ud, e.err)
          : e \in {edit_message(t, f, site, chat, message_id, MenuMsg(text))}})

\* button_handler, "annuler_modif"
button_annuler_modif(d, t, f, chat, message_id, ud) ==
  button_notice(d, t, f, 1, chat, message_id, ud, "Bewerking geannuleerd",
                "edit_cancelled")

\* button_handler, "supprimer_retour": note the pressed record in user_data and
\* ask for confirmation in its message
button_supprimer_retour(d, t, f, chat, message_id, ud) ==
  Only({Only({IF e.err = "none" THEN Result(d, e.tg, ud2, "SELECTING_ACTION", "none")
              ELSE Raised(d, e.tg, ud2, e.err)
                : e \in {edit_message(t, f, 1, chat, message_id,
                                      Msg("confirm", "Bevestig verwijdering"))}})
          : ud2 \in {Put(Put(ud, "message_id_suppression", message_id),
                         "chat_id_suppression", chat)}})

\* button_handler, lines 987-995: delete the record's message and say so in the
\* pressed one; any failure is answered with a failure notice in the pressed
\* message.  What was done to the record's message is the notice of the run,
\* also when the handler raises.
suppression_shown(d, t, f, chat, pressed_id, ud, chat_id, message_id) ==
  LET failed(t1, notice) ==
        [button_notice(d, t1, f, 3, chat, pressed_id, ud, "Fout bij het verwijderen",
                       notice)
           EXCEPT !.notice = notice]
  IN Only({IF dm.err # "none" THEN failed(dm.tg, "message_left")
           ELSE Only({IF e.err = "none"
                        THEN Result(d, e.tg, EmptyDict, "END", "message_deleted")
                        ELSE failed(e.tg, "message_deleted")
                        : e \in {edit_message(dm.tg, f, 2, chat, pressed_id,
                                              MenuMsg("Afwerking verwijderd"))}})
             : dm \in {delete_message(t, f, 1, chat_id, message_id)}})

\* button_handler, "confirmer_suppression", without delete_retour_from_db
button_confirmer_KeepRow(d, t, f, chat, pressed_id, ud) ==
  LET message_id == Get(ud, "message_id_suppression", 0)
      chat_id == Get(ud, "chat_id_suppression", "")
  IN IF message_id = 0 \/ chat_id = "" THEN Result(d, t, EmptyDict, "END", "nothing")
     ELSE suppression_shown(d, t, f, chat, pressed_id, ud, chat_id, message_id)

\* button_handler, "confirmer_suppression": the record noted by "supprimer_retour"
button_confirmer_suppression(d, t, f, chat, pressed_id, ud) ==
  LET message_id == Get(ud, "message_id_suppression", 0)
      chat_id == Get(ud, "chat_id_suppression", "")
  IN IF message_id = 0 \/ chat_id = "" THEN Result(d, t, EmptyDict, "END", "nothing")
     ELSE Only({suppression_shown(u.db, t, f, chat, pressed_id, ud, chat_id, message_id)
                  : u \in {delete_retour_from_db(d, message_id, chat_id)}})

\* button_handler, "annuler_suppression"
button_annuler_suppression(d, t, f, chat, message_id, ud) ==
  button_notice(d, t, f, 1, chat, message_id, ud, "Verwijdering geannuleerd",
                "delete_cancelled")

\* handle_modification, lines 1284-1316: show the record again in its message and
\* answer the operator; a failure of either is answered with a failure notice
modification_shown(d, t, f, chat, ud, chat_id, message_id, new_text) ==
  LET answered(s, notice) ==
        IF s.err = "none" THEN Result(d, s.tg, EmptyDict, "END", notice)
        ELSE Raised(d, s.tg, ud, s.err)
      failed(t1) ==
        Only({answered(s, "edit_failed")
                : s \in {send_message(t1, f, 3, chat, MenuMsg("Fout bij het bewerken"))}})
  IN Only({IF e.err # "none" THEN failed(e.tg)
           ELSE Only({IF s.err = "none" THEN answered(s, "edited") ELSE failed(s.tg)
                        : s \in {send_message(e.tg, f, 2, chat, MenuMsg("bijgewerkt"))}})
             : e \in {edit_message(t, f, 1, chat_id, message_id, new_text)}})

\* modification_written showing the status noted when the edit was opened
modification_written_StartStatut(d, t, f, chat, ud, chat_id, message_id, modif_type, new_value) ==
  LET retour_data == Put(Get(ud, "retour_data", EmptyDict), modif_type, new_value)
      description == Get(retour_data, "description", "N/A")
      shown(retour_db) ==
        IF retour_db # None
          THEN modification_shown(d, t, f, chat, ud, chat_id, message_id,
                                  format_retour_message(
                                    retour_db.adresse, "", retour_db.materiel,
                                    Get(ud, "statut_editing", "en_attente"),
                                    retour_db.date_creation, retour_db.description))
          ELSE modification_shown(d, t, f, chat, Put(ud, "retour_data", retour_data),
                                  chat_id, message_id,
                                  format_retour_message(
                                    Get(retour_data, "adresse", "N/A"), "",
                                    Get(retour_data, "materiel", "N/A"),
                                    "en_attente", -1,
                                    IF description = "N/A" THEN "" ELSE description))
  IN Only({shown(retour_db)
             : retour_db \in {get_retour_by_message_id(d, message_id, chat_id)}})

\* handle_modification, lines 1260-1282: read the record back, and without a
\* record fall back on retour_data
modification_written(d, t, f, chat, ud, chat_id, message_id, modif_type, new_value) ==
  LET retour_data == Put(Get(ud, "retour_data", EmptyDict), modif_type, new_value)
      description == Get(retour_data, "description", "N/A")
      shown(retour_db) ==
        IF retour_db # None
          THEN modification_shown(d, t, f, chat, ud, chat_id, message_id,
                                  format_retour_message(
                                    retour_db.adresse, "", retour_db.materiel,
                                    get_statut_from_retour(retour_db),
                                    retour_db.date_creation, retour_db.description))
          ELSE modification_shown(d, t, f, chat, Put(ud, "retour_data", retour_data),
                                  chat_id, message_id,
                                  format_retour_message(
                                    Get(retour_data, "adresse", "N/A"), "",
                                    Get(retour_data, "materiel", "N/A"),
                                    "en_attente", -1,
                                    IF description = "N/A" THEN "" ELSE description))
  IN Only({shown(retour_db)
             : retour_db \in {get_retour_by_message_id(d, message_id, chat_id)}})

\* handle_modification, lines 1233-1255: the replies when user_data does not
\* name a record and a field
modification_refused(d, t, f, chat, ud) ==
  LET refused(text, notice) ==
        Only({IF s.err = "none" THEN Result(d, s.tg, EmptyDict, "END", notice)
              ELSE Raised(d, s.tg, ud, s.err)
                : s \in {send_message(t, f, 1, chat, MenuMsg(text))}})
  IN IF Get(ud, "message_id_editing", 0) = 0 \/ Get(ud, "chat_id_editing", "") = ""
        \/ Get(ud, "retour_data", EmptyDict) = EmptyDict
       THEN refused("bewerkingsgegevens niet gevonden", "edit_data_missing")
     ELSE IF Get(ud, "modif_type", "") \notin {"adresse", "description", "materiel"}
       THEN refused("ongeldig bewerkingstype", "edit_type_invalid")
     ELSE None

\* handle_modification with UPDATE retours SET ... WHERE message_id = ?
handle_modification_AnyChat(d, t, f, chat, text, ud) ==
  LET message_id == Get(ud, "message_id_editing", 0)
      chat_id == Get(ud, "chat_id_editing", "")
      modif_type == Get(ud, "modif_type", "")
      written == [d EXCEPT !.retours =
                    {IF r.message_id = message_id
                       THEN [r EXCEPT ![modif_type] = strip(text)] ELSE r
                       : r \in d.retours}]
  IN Only({IF refused # None THEN refused
           ELSE modification_written(written, t, f, chat, ud, chat_id, message_id,
                                     modif_type, strip(text))
             : refused \in {modification_refused(d, t, f, chat, ud)}})

\* handle_modification: the text typed is the new value of the field chosen
handle_modification(d, t, f, chat, text, ud) ==
  LET new_value == strip(text)
      modif_type == Get(ud, "modif_type", "")
      message_id == Get(ud, "message_id_editing", 0)
      chat_id == Get(ud, "chat_id_editing", "")
  IN Only({IF refused # None THEN refused
           ELSE Only({modification_written(u.db, t, f, chat, ud, chat_id, message_id,
                                           modif_type, new_value)
                        : u \in {update_retour_in_db(d, message_id, chat_id,
                                                     modif_type, new_value)}})
             : refused \in {modification_refused(d, t, f, chat, ud)}})

\* the callback data written as the status
nouveau_statut_AsData(data) == data

\* statut_handler, line 548: the status a standalone status button writes
nouveau_statut(data) == IF data = "statut_fait" THEN "fait" ELSE "en_attente"

\* statut_handler, lines 551-573: show the record as the database has it now
statut_shown(d, t, f, chat, message_id, ud, retour) ==
  LET statut_actuel == get_statut_from_retour(retour)
      new_text == format_retour_message(retour.adresse, "", retour.materiel,
                                        statut_actuel, retour.date_creation,
                                        retour.description)
  IN IF retour = None THEN Result(d, t, ud, "same", "not_found")
     ELSE Only({Result(d, e.tg, ud, "same",
                       IF e.err = "none" THEN "updated" ELSE "update_failed")
                  : e \in {edit_message(t, f, 1, chat, message_id, new_text)}})

\* statut_handler with the UPDATE undone when the message could not be edited
statut_handler_Rollback(d, t, f, chat, message_id, data, ud) ==
  Only({Only({[s EXCEPT !.db = IF s.notice = "update_failed" THEN d ELSE s.db]
                : s \in {statut_shown(u.db, t, f, chat, message_id, ud, retour)}})
          : retour \in {get_retour_by_message_id(d, message_id, chat)},
            u \in {update_statut_in_db(d, message_id, chat, nouveau_statut(data))}})

\* statut_handler, lines 536-573: write the status of the pressed button, read
\* the record back and show it
statut_handler(d, t, f, chat, message_id, data, ud) ==
  Only({Only({statut_shown(u.db, t, f, chat, message_id, ud, retour)
                : retour \in {get_retour_by_message_id(u.db, message_id, chat)}})
          : u \in {update_statut_in_db(d, message_id, chat, nouveau_statut(data))}})

\* changer_statut_handler, lines 619-666: the text and keyboard of the page
liste_statut(r, page) ==
  IF r.retours = <<>>
    THEN MenuMsg("Geen afwerkingen geregistreerd")
    ELSE get_liste_statut_keyboard("Statut wijzigen", r.retours, page, r.total_pages,
                                   r.total)

\* changer_statut_handler: the status list of a page, in place of the pressed
\* message, or as a new message when the edit fails
changer_statut_handler(d, t, f, chat, message_id, page, tie, ud) ==
  Only({Only({IF e.err = "none" THEN Result(d, e.tg, ud, "same", "list")
              ELSE Only({IF s.err = "none" THEN Result(d, s.tg, ud, "same", "list")
                         ELSE Raised(d, s.tg, ud, s.err)
                           : s \in {send_message(e.tg, f, 2, chat, m)}})
                : e \in {edit_message(t, f, 1, chat, message_id, m)}})
          : m \in {liste_statut(get_retours_paginated(d, chat, page, PER_PAGE, tie),
                                page)}})

\* voir_retours_handler, lines 794-836: the text and keyboard of the page
liste_retours(r, page) ==
  IF r.retours = <<>>
    THEN MenuMsg("Lijst: geen afwerkingen geregistreerd")
    ELSE [Msg("viewlist", "Lijst van afwerkingen") EXCEPT
            !.sel = [i \in DOMAIN r.retours |->
                       [statut |-> get_statut_from_retour(r.retours[i]),
                        nom_client |-> r.retours[i].nom_client,
                        adresse |-> r.retours[i].adresse,
                        description |-> r.retours[i].description,
                        materiel |-> r.retours[i].materiel,
                        date_creation |-> r.retours[i].date_creation]],
            !.page = page, !.pages = r.total_pages, !.total = r.total]

\* a handler that shows m in place of the pressed message, or as a new message
\* when the edit fails
shown_in_place(d, t, f, chat, message_id, ud, m, notice) ==
  Only({IF e.err = "none" THEN Result(d, e.tg, ud, "same", notice)
        ELSE Only({IF s.err = "none" THEN Result(d, s.tg, ud, "same", notice)
                   ELSE Raised(d, s.tg, ud, s.err)
                     : s \in {send_message(e.tg, f, 2, chat, m)}})
          : e \in {edit_message(t, f, 1, chat, message_id, m)}})

\* voir_retours_handler with context.user_data.clear() before the list is shown
voir_retours_handler_ClearData(d, t, f, chat, message_id, page, tie, ud) ==
  Only({shown_in_place(d, t, f, chat, message_id, EmptyDict, m, "list")
          : m \in {liste_retours(get_retours_paginated(d, chat, page, PER_PAGE, tie),
                                 page)}})

\* voir_retours_handler: the list of a page
voir_retours_handler(d, t, f, chat, message_id, page, tie, ud) ==
  Only({shown_in_place(d, t, f, chat, message_id, ud, m, "list")
          : m \in {liste_retours(get_retours_paginated(d, chat, page, PER_PAGE, tie),
                                 page)}})

\* menu_principal_handler: the menu in place of a list
menu_principal_handler(d, t, f, chat, message_id, ud) ==
  shown_in_place(d, t, f, chat, message_id, ud, MenuMsg("Welkom"), "menu")

\* changer_statut_select_handler, lines 710-712: the status a list button writes
flip_statut(statut_actuel) == IF statut_actuel = "en_attente" THEN "fait" ELSE "en_attente"

\* the refresh that always shows the first page
liste_refresh_FirstPage(d, t, f, chat, list_message_id, current_page, tie) ==
  Only({IF r.retours = <<>> THEN t
        ELSE edit_message(t, f, 1, chat, list_message_id,
                          get_liste_statut_keyboard("Statut wijzigen (bijgewerkt)",
                                                    r.retours, current_page,
                                                    r.total_pages, r.total)).tg
          : r \in {get_retours_paginated(d, chat, 0, PER_PAGE, tie)}})

\* changer_statut_select_handler, lines 739-766: the list shown again
liste_refresh(d, t, f, chat, list_message_id, current_page, tie) ==
  Only({IF r.retours = <<>> THEN t
        ELSE edit_message(t, f, 1, chat, list_message_id,
                          get_liste_statut_keyboard("Statut wijzigen (bijgewerkt)",
                                                    r.retours, current_page,
                                                    r.total_pages, r.total)).tg
          : r \in {get_retours_paginated(d, chat, current_page, PER_PAGE, tie)}})

\* changer_statut_select_handler, lines 717-781: refresh the list, then edit the
\* record's message in its group; neither failure stops the handler
statut_toggled(d, t, f, chat, list_message_id, current_page, tie, ud, retour_updated) ==
  LET statut_final == get_statut_from_retour(retour_updated)
      new_text == format_retour_message(retour_updated.adresse, "",
                                        retour_updated.materiel, statut_final,
                                        retour_updated.date_creation,
                                        retour_updated.description)
  IN IF retour_updated = None THEN Result(d, t, ud, "same", "not_found")
     ELSE Only({Result(d,
                       edit_message(t1, f, 2, retour_updated.chat_id,
                                    retour_updated.message_id, new_text).tg,
                       ud, "same", "toggled")
                  : t1 \in {liste_refresh(d, t, f, chat, list_message_id, current_page,
                                          tie)}})

changer_statut_select_handler(d, t, f, chat, list_message_id, message_id, current_page, tie, ud) ==
  Only({IF retour = None THEN Result(d, t, ud, "same", "not_found")
        ELSE Only({Only({statut_toggled(u.db, t, f, chat, list_message_id, current_page,
                                        tie, ud, retour_updated)
                           : retour_updated \in
                               {get_retour_by_message_id(u.db, message_id,
                                                         retour.chat_id)}})
                     : u \in {update_statut_in_db(d, message_id, retour.chat_id,
                                                  flip_statut(
                                                    get_statut_from_retour(retour)))}})
          : retour \in {get_retour_by_message_id(d, message_id, chat)}})

(***************************************************************************)
(* SpecStore: the store functions called one after another with arbitrary  *)
(* arguments, as a caller of the Record Store may.                         *)
(***************************************************************************)
TieOrders == {"rowid_asc", "rowid_desc"}

\* a call record: the function, its arguments, the exception, what it returned
NoCall ==
  [op |-> "none", message_id |-> 0, chat_id |-> "", arg |-> "", value |-> "",
   page |-> 0, per_page |-> 0, err |-> "none", rep |-> FALSE,
   row |-> None, rows |-> <<>>, total |-> 0, total_pages |-> 0]

\* no page asked for yet
NoPaging ==
  [chat_id |-> "", per_page |-> 0, page |-> 0, rows |-> <<>>, total |-> 0,
   total_pages |-> 0, seen |-> <<>>, walk |-> FALSE]

SameCall(a, b) ==
  /\ a.op = b.op /\ a.message_id = b.message_id /\ a.chat_id = b.chat_id
  /\ a.arg = b.arg /\ a.value = b.value /\ a.page = b.page /\ a.per_page = b.per_page

\* the bookkeeping of one call: c with rep telling whether it repeats the last call
Record(c) ==
  /\ calls < MaxCalls
  /\ calls' = calls + 1
  /\ last' = [c EXCEPT !.rep = SameCall(last, c)]

InitStore ==
  /\ db = [retours |-> {}, seq |-> 0]
  /\ now = 0
  /\ tieOrder \in TieOrders
  /\ calls = 0
  /\ last = NoCall
  /\ paging = NoPaging
  /\ InitBot

\* one second passes
Tick ==
  /\ now < MaxClock
  /\ now' = now + 1
  /\ UNCHANGED <<db, tieOrder, calls, last, paging, botVars>>

StoreAdd ==
  \E m \in MsgIds, c \in Chats, adresse \in {"a"} :
    LET res == add_retour_to_db(db, now, m, c, "", adresse, "", "a", "Non definie")
    IN /\ db.seq < MaxId
       /\ db' = res.db
       /\ Record([NoCall EXCEPT !.op = "add_retour_to_db", !.message_id = m,
                                !.chat_id = c, !.value = adresse, !.err = res.err])
       /\ UNCHANGED <<now, tieOrder, paging, botVars>>

StoreUpdateField ==
  \E m \in MsgIds, c \in Chats, field \in Columns \ {"id", "date_creation"}, value \in {"b"} :
    LET res == update_retour_in_db(db, m, c, field, value)
    IN /\ db' = res.db
       /\ Record([NoCall EXCEPT !.op = "update_retour_in_db", !.message_id = m,
                                !.chat_id = c, !.arg = field, !.value = value,
                                !.err = res.err])
       /\ UNCHANGED <<now, tieOrder, paging, botVars>>

StoreDelete ==
  \E m \in MsgIds, c \in Chats :
    LET res == delete_retour_from_db(db, m, c)
    IN /\ db' = res.db
       /\ Record([NoCall EXCEPT !.op = "delete_retour_from_db", !.message_id = m,
                                !.chat_id = c, !.err = res.err])
       /\ UNCHANGED <<now, tieOrder, paging, botVars>>

StoreUpdateStatut ==
  \E m \in MsgIds, c \in Chats, statut \in Statuts :
    LET res == update_statut_in_db(db, m, c, statut)
    IN /\ db' = res.db
       /\ Record([NoCall EXCEPT !.op = "update_statut_in_db", !.message_id = m,
                                !.chat_id = c, !.value = statut, !.err = res.err])
       /\ UNCHANGED <<now, tieOrder, paging, botVars>>

StoreGet ==
  \E m \in MsgIds, c \in Chats :
    /\ Record([NoCall EXCEPT !.op = "get_retour_by_message_id", !.message_id = m,
                             !.chat_id = c,
                             !.row = get_retour_by_message_id(db, m, c)])
    /\ UNCHANGED <<db, now, tieOrder, paging, botVars>>

StoreGetAll ==
  \E c \in Chats :
    /\ Record([NoCall EXCEPT !.op = "get_all_retours", !.chat_id = c,
                             !.rows = get_all_retours(db, c, tieOrder)])
    /\ UNCHANGED <<db, now, tieOrder, paging, botVars>>

StoreList ==
  \E c \in Chats, page \in 0..1 :
    LET res == get_retours_paginated(db, c, page, PER_PAGE, tieOrder)
    IN /\ Record([NoCall EXCEPT !.op = "get_retours_paginated", !.chat_id = c,
                                !.page = page, !.per_page = PER_PAGE,
                                !.rows = res.retours, !.total = res.total,
                                !.total_pages = res.total_pages])
       /\ UNCHANGED <<db, now, tieOrder, paging, botVars>>

StoreMoveChat ==
  \E m \in MsgIds, c \in Chats : \E c2 \in Chats \ {c} :
    LET res == update_chat_id_in_db(db, m, c, c2)
    IN /\ db' = res.db
       /\ Record([NoCall EXCEPT !.op = "update_chat_id_in_db", !.message_id = m,
                                !.chat_id = c, !.arg = c2, !.err = res.err])
       /\ UNCHANGED <<now, tieOrder, paging, botVars>>

NextStore ==
  \/ Tick
  \/ StoreAdd
  \/ StoreUpdateField
  \/ StoreDelete
  \/ StoreUpdateStatut
  \/ StoreGet
  \/ StoreGetAll
  \/ StoreList
  \/ StoreMoveChat

SpecStore == InitStore /\ [][NextStore]_vars

(***************************************************************************)
(* SpecList: get_retours_paginated on stores of up to MaxListRows rows,    *)
(* page after page and at arbitrary pages, with no write in between.       *)
(***************************************************************************)
\* page sizes asked for: the one every caller passes, and a small one
PageSizes == {3, PER_PAGE}

\* a store after n creations, per of them in each second, every fifth one in
\* group g2 when mixed, every second one marked done since
ListStore(n, per, mixed) ==
  [retours |->
     {[id |-> i, message_id |-> i,
       chat_id |-> IF mixed /\ i % 5 = 0 THEN "g2" ELSE "g1",
       nom_client |-> "", adresse |-> "a", description |-> "", materiel |-> "a",
       date |-> "Non definie", date_creation |-> (i - 1) \div per,
       statut |-> IF i % 2 = 0 THEN "fait" ELSE "en_attente"] : i \in 1..n},
   seq |-> n]

InitList ==
  /\ \E n \in 0..MaxListRows, per \in {1, 2, 4}, mixed \in BOOLEAN :
       /\ db = ListStore(n, per, mixed)
       /\ now = n \div per
  /\ tieOrder \in TieOrders
  /\ calls = 0
  /\ last = NoCall
  /\ paging = NoPaging
  /\ InitBot

\* the first page of a group
ListFirstPage ==
  \E c \in Chats, per_page \in PageSizes :
    LET res == get_retours_paginated(db, c, 0, per_page, tieOrder)
    IN /\ paging' = [chat_id |-> c, per_page |-> per_page, page |-> 0,
                     rows |-> res.retours, total |-> res.total,
                     total_pages |-> res.total_pages, seen |-> res.retours,
                     walk |-> TRUE]
       /\ UNCHANGED <<db, now, tieOrder, calls, last, botVars>>

\* the page after the last one fetched, while there is one
ListNextPage ==
  LET res == get_retours_paginated(db, paging.chat_id, paging.page + 1,
                                   paging.per_page, tieOrder)
  IN /\ paging.walk
     /\ paging.page + 1 < paging.total_pages
     /\ paging' = [paging EXCEPT !.page = paging.page + 1, !.rows = res.retours,
                                 !.total = res.total,
                                 !.total_pages = res.total_pages,
                                 !.seen = paging.seen \o res.retours]
     /\ UNCHANGED <<db, now, tieOrder, calls, last, botVars>>

\* any page of a group, also one beyond the last
ListAnyPage ==
  \E c \in Chats, per_page \in PageSizes, page \in 1..MaxPage :
    LET res == get_retours_paginated(db, c, page, per_page, tieOrder)
    IN /\ paging' = [chat_id |-> c, per_page |-> per_page, page |-> page,
                     rows |-> res.retours, total |-> res.total,
                     total_pages |-> res.total_pages, seen |-> <<>>,
                     walk |-> FALSE]
       /\ UNCHANGED <<db, now, tieOrder, calls, last, botVars>>

NextList ==
  \/ ListFirstPage
  \/ ListNextPage
  \/ ListAnyPage

SpecList == InitList /\ [][NextList]_vars

(***************************************************************************)
(* Spec: the bot.  One step is one update handled to its end, the platform *)
(* turning the group into a supergroup, or a second passing.  Updates come *)
(* from the chat the operators are in: the group until it migrates, the    *)
(* supergroup after.  An update of the group handled while the group       *)
(* migrates is a run with a fault of kind "migrate".                       *)
(***************************************************************************)
\* the texts operators type
InputTexts == {" a "}

\* the faults of a run whose platform calls are at sites, for an update of chat
Faults(sites, chat) ==
  {NoFault} \cup [at : sites,
                  kind : (IF tg.fails < MaxFails THEN {"fail"} ELSE {})
                         \cup (IF chat = "g1" THEN {"migrate"} ELSE {})]

ActiveChats == IF tg.migrated["g1"] = "" THEN {"g1"} ELSE {"s1"}

\* the messages of chat that carry one of kinds
Shown(chat, kinds) ==
  {k \in DOMAIN tg.msgs : k[1] = chat /\ tg.msgs[k].kind \in kinds}

\* the steps that carry a form on
FormSteps == {"adresse", "materiel", "extra", "skip"}

Last(q) == q[Len(q)]

\* the form of (chat, user) after the operator's step was handled with result r
Session(s, step, input, r) ==
  IF step = "start" /\ r.ret = "COLLECTING_ADRESSE"
    THEN [steps |-> <<"start">>, adresse |-> "", materiel |-> ""]
  ELSE IF step \in FormSteps /\ r.raised = "none"
    THEN [steps |-> Append(s.steps, step),
          adresse |-> IF step = "adresse" THEN input ELSE s.adresse,
          materiel |-> IF step = "materiel" THEN input ELSE s.materiel]
  ELSE IF step \in FormSteps \cup {"start"}
    THEN IF s.steps # <<>> /\ Last(s.steps) # "failed"
           THEN [s EXCEPT !.steps = Append(@, "failed")] ELSE s
  ELSE s

\* a step that leaves user_data empty drops the forms the operator has in any chat
Dropped(s) ==
  IF s.steps # <<>> /\ Last(s.steps) \notin {"dropped", "skip", "extra"}
    THEN [s EXCEPT !.steps = Append(@, "dropped")] ELSE s

\* the application runs handler on an update of (chat, user), the operator's
\* step with the text typed or the button pressed, and gets r: an exception
\* goes to error_handler and leaves the conversation where it was
Commit(handler, chat, user, r, step, input, msg, sel) ==
  /\ db' = r.db
  /\ tg' = error_handler(r.tg, chat, r.raised)
  /\ user_data' = [user_data EXCEPT ![user] = r.ud]
  /\ conv' = IF r.ret = "same" THEN conv ELSE [conv EXCEPT ![<<chat, user>>] = r.ret]
  /\ ev' = [handler |-> handler, step |-> step, input |-> input, msg |-> msg,
            sel |-> sel, chat |-> chat, user |-> user, insert |-> r.insert, dberr |-> r.dberr,
            notice |-> r.notice, raised |-> r.raised, run |-> 1 - ev.run]
  /\ sess' = [k \in DOMAIN sess |->
               IF k = <<chat, user>> /\ step \in FormSteps \cup {"start"}
                 THEN Session(sess[k], step, input, r)
               ELSE IF k[2] = user /\ r.ud = EmptyDict THEN Dropped(sess[k])
               ELSE sess[k]]
  /\ UNCHANGED <<now, tieOrder, calls, last, paging>>

Init ==
  /\ db = [retours |-> {}, seq |-> 0]
  /\ now = 0
  /\ tieOrder \in TieOrders
  /\ calls = 0
  /\ last = NoCall
  /\ paging = NoPaging
  /\ InitBot

CmdAfwerken ==
  \E chat \in ActiveChats, user \in Users : \E f \in Faults(1..2, chat) :
    /\ tg.next[chat] <= MaxMsg
    /\ \E r \in {afwerken(db, tg, f, chat, user_data[user])} :
         Commit("afwerken", chat, user, r, "menu", "", 0, 0)

\* an entry point of the ConversationHandler, allow_reentry: in every state
ButtonAjouter ==
  \E chat \in ActiveChats, user \in Users : \E f \in Faults(1..3, chat) :
    \E k \in Shown(chat, {"menu"}) :
      /\ tg.next[chat] <= MaxMsg
      /\ \E r \in {button_ajouter_retour(db, tg, f, chat, k[2], user_data[user])} :
           Commit("button_handler", chat, user, r, "start", "", k[2], 0)

\* a text typed while the form asks for the address, one of texts
TypeAdresse(texts) ==
  \E chat \in ActiveChats, user \in Users, text \in texts :
    \E f \in Faults(1..2, chat) :
      /\ conv[<<chat, user>>] = "COLLECTING_ADRESSE"
      /\ tg.next[chat] <= MaxMsg + 1
      /\ \E r \in {collect_adresse(db, tg, f, chat, text, user_data[user])} :
           Commit("collect_adresse", chat, user, r, "adresse", text, 0, 0)

TypeMateriel(texts) ==
  \E chat \in ActiveChats, user \in Users, text \in texts :
    \E f \in Faults(1..2, chat) :
      /\ conv[<<chat, user>>] = "COLLECTING_MATERIEL"
      /\ tg.next[chat] <= MaxMsg + 1
      /\ \E r \in {collect_materiel(db, tg, f, chat, text, user_data[user])} :
           Commit("collect_materiel", chat, user, r, "materiel", text, 0, 0)

TypeExtraInfo(texts) ==
  \E chat \in ActiveChats, user \in Users, text \in texts :
    \E f \in Faults(1..6, chat) :
      /\ conv[<<chat, user>>] = "COLLECTING_EXTRA_INFO"
      /\ tg.next[chat] <= MaxMsg
      /\ db.seq < MaxId
      /\ \E r \in {collect_extra_info(db, now, tg, f, chat, FALSE, text,
                                      user_data[user])} :
           Commit("collect_extra_info", chat, user, r, "extra", text, 0, 0)

TextAdresse == TypeAdresse(InputTexts)

TextMateriel == TypeMateriel(InputTexts)

TextExtraInfo == TypeExtraInfo(InputTexts)

ButtonPasser ==
  \E chat \in ActiveChats, user \in Users : \E f \in Faults(2..6, chat) :
    /\ conv[<<chat, user>>] = "COLLECTING_EXTRA_INFO"
    /\ tg.next[chat] <= MaxMsg
    /\ db.seq < MaxId
    /\ \E k \in Shown(chat, {"progress"}) :
         /\ tg.msgs[k].skip
         /\ \E r \in {collect_extra_info(db, now, tg, f, chat, TRUE, "",
                                         user_data[user])} :
              Commit("collect_extra_info", chat, user, r, "skip", "", k[2], 0)

ButtonStatut ==
  \E chat \in ActiveChats, user \in Users : \E f \in Faults(1..1, chat) :
    \E k \in Shown(chat, {"temp", "retour"}) :
      \E r \in {statut_handler(db, tg, f, chat, k[2],
                               get_retour_keyboard(tg.msgs[k].statut),
                               user_data[user])} :
        Commit("statut_handler", chat, user, r, "statut", "", k[2], 0)

ButtonChangerStatut ==
  \E chat \in ActiveChats, user \in Users : \E f \in Faults(1..2, chat) :
    \E k \in Shown(chat, {"menu"}) :
      /\ tg.next[chat] <= MaxMsg
      /\ \E r \in {changer_statut_handler(db, tg, f, chat, k[2], 0, tieOrder,
                                          user_data[user])} :
           Commit("changer_statut_handler", chat, user, r, "list", "", k[2], 0)

ButtonChangerStatutSelect ==
  \E chat \in ActiveChats, user \in Users : \E f \in Faults(1..2, chat) :
    \E k \in Shown(chat, {"statlist"}) : \E i \in DOMAIN tg.msgs[k].sel :
      \E r \in {changer_statut_select_handler(db, tg, f, chat, k[2],
                                              tg.msgs[k].sel[i].message_id,
                                              tg.msgs[k].page, tieOrder,
                                              user_data[user])} :
        Commit("changer_statut_select_handler", chat, user, r, "select", "", k[2],
                  tg.msgs[k].sel[i].message_id)

\* the platform turns group g1 into supergroup s1
Migrate ==
  /\ tg.migrated["g1"] = ""
  /\ tg' = DoMigrate(tg, "g1")
  /\ UNCHANGED <<db, now, tieOrder, calls, last, paging, user_data, conv, ev, sess>>

Next ==
  \/ CmdAfwerken
  \/ ButtonAjouter
  \/ TextAdresse
  \/ TextMateriel
  \/ TextExtraInfo
  \/ ButtonPasser
  \/ ButtonStatut
  \/ ButtonChangerStatut
  \/ ButtonChangerStatutSelect
  \/ Migrate
  \/ Tick

Spec == Init /\ [][Next]_vars

(***************************************************************************)
(* SpecForm: the form that creates a record, with its ways out: the button *)
(* "Annuleren", /cancel and /afwerken.  Operators type two texts, so that  *)
(* the address and the material of a record can differ.                    *)
(***************************************************************************)
FormTexts == {" a ", "b"}

FormAdresse == TypeAdresse(FormTexts)

FormMateriel == TypeMateriel(FormTexts)

FormExtraInfo == TypeExtraInfo(FormTexts)

\* the button "Annuleren" under a status message of the form
ButtonAnnulerAjout ==
  \E chat \in ActiveChats, user \in Users : \E f \in Faults(1..2, chat) :
    /\ tg.next[chat] <= MaxMsg
    /\ \E k \in Shown(chat, {"progress"}) :
         \E r \in {annuler_ajout_handler(db, tg, f, chat, user_data[user])} :
           Commit("annuler_ajout_handler", chat, user, r, "cancel", "", k[2], 0)

\* /cancel: a fallback, handled while the operator is in a conversation
CmdCancel ==
  \E chat \in ActiveChats, user \in Users : \E f \in Faults(1..1, chat) :
    /\ conv[<<chat, user>>] # "END"
    /\ tg.next[chat] <= MaxMsg
    /\ \E r \in {cancel(db, tg, f, chat, user_data[user])} :
         Commit("cancel", chat, user, r, "stop", "", 0, 0)

NextForm ==
  \/ CmdAfwerken
  \/ ButtonAjouter
  \/ FormAdresse
  \/ FormMateriel
  \/ FormExtraInfo
  \/ ButtonPasser
  \/ ButtonAnnulerAjout
  \/ CmdCancel
  \/ Migrate

SpecForm == Init /\ [][NextForm]_vars

(***************************************************************************)
(* SpecIdle: the form with the clock of the ConversationHandler: a         *)
(* conversation that is left alone for conversation_timeout seconds is     *)
(* ended by the library.                                                   *)
(***************************************************************************)
\* conversation_timeout=600.0 with no handler for ConversationHandler.TIMEOUT:
\* the job of the library sets the conversation of (chat, user) to END; it
\* calls no handler of the bot and does not touch context.user_data
conversation_timeout(d, t, ud) ==
  [db |-> d, tg |-> t, ud |-> ud, ret |-> "END", insert |-> <<>>, dberr |-> "none",
   notice |-> "none", raised |-> "none"]

\* ten minutes have passed since the last update of a conversation
Timeout ==
  \E chat \in ActiveChats, user \in Users :
    /\ conv[<<chat, user>>] # "END"
    /\ \E r \in {conversation_timeout(db, tg, user_data[user])} :
         Commit("conversation_timeout", chat, user, r, "timeout", "", 0, 0)

NextIdle ==
  \/ CmdAfwerken
  \/ ButtonAjouter
  \/ FormAdresse
  \/ FormMateriel
  \/ FormExtraInfo
  \/ ButtonPasser
  \/ Timeout

SpecIdle == Init /\ [][NextIdle]_vars

(***************************************************************************)
(* SpecEdit: the buttons under a record's message: "Bewerken" with its     *)
(* field buttons and the text that follows, and "Verwijderen" with its     *)
(* confirmation.  It starts after two records were created in group g1,    *)
(* the second with extra information and marked done since, while group g2 *)
(* has a record under the message id of the first.                         *)
(***************************************************************************)
\* the texts operators type as the new value of a field
EditTexts == {" c "}

EditRow(id, message_id, chat_id, text, description, date_creation, statut) ==
  [id |-> id, message_id |-> message_id, chat_id |-> chat_id, nom_client |-> "",
   adresse |-> text, description |-> description, materiel |-> text,
   date |-> "Non definie", date_creation |-> date_creation, statut |-> statut]

EditStore ==
  [retours |-> {EditRow(1, 3, "g1", "a", "", 0, "en_attente"),
                EditRow(2, 3, "g2", "a", "", 0, "en_attente"),
                EditRow(3, 6, "g1", "b", "b", 1, "fait")},
   seq |-> 3]

\* the messages of g1 then: two menus whose button "Toevoegen" was pressed, the
\* two records, and the menu that confirmed the second
EditPlatform ==
  [InitPlatform EXCEPT
     !.msgs = (<<"g1", 1>> :> Msg("plain", "Afwerkingen beheer"))
              @@ (<<"g1", 3>> :> format_retour_message("a", "", "a", "en_attente", 0, ""))
              @@ (<<"g1", 4>> :> Msg("plain", "Afwerking toegevoegd"))
              @@ (<<"g1", 6>> :> format_retour_message("b", "", "b", "fait", 1, "b"))
              @@ (<<"g1", 7>> :> MenuMsg("Afwerking toegevoegd")),
     !.next["g1"] = 8]

InitEdit ==
  /\ db = EditStore
  /\ now = 1
  /\ tieOrder \in TieOrders
  /\ calls = 0
  /\ last = NoCall
  /\ paging = NoPaging
  /\ tg = EditPlatform
  /\ user_data = [u \in Users |-> EmptyDict]
  /\ conv = [k \in BotChats \X Users |-> "END"]
  /\ ev = NoEvent
  /\ sess = [k \in BotChats \X Users |-> NoSession]

\* the buttons of the ConversationHandler's entry points are handled in every
\* state of the conversation (allow_reentry)
ButtonModifier ==
  \E chat \in ActiveChats, user \in Users : \E f \in Faults(1..1, chat) :
    \E k \in Shown(chat, {"temp", "retour"}) :
      /\ tg.next[chat] <= MaxEditMsg
      /\ \E r \in {button_modifier_retour(db, tg, f, chat, k[2], user_data[user])} :
           Commit("button_handler", chat, user, r, "edit", "", k[2], 0)

ButtonModif ==
  \E chat \in ActiveChats, user \in Users : \E f \in Faults(1..1, chat) :
    \E k \in Shown(chat, {"modifier"}) :
      \E modif_type \in {"adresse", "description", "materiel"} :
        /\ tg.next[chat] <= MaxEditMsg
        /\ \E r \in {button_modif(db, tg, f, chat, k[2], modif_type,
                                  user_data[user])} :
             Commit("button_handler", chat, user, r, "field", "", k[2], 0)

\* a text typed while the conversation waits for the new value of a field
TextModification ==
  \E chat \in ActiveChats, user \in Users, text \in EditTexts :
    \E f \in Faults(1..3, chat) :
      /\ conv[<<chat, user>>] = "MODIFYING_FIELD"
      /\ tg.next[chat] <= MaxEditMsg
      /\ \E r \in {handle_modification(db, tg, f, chat, text, user_data[user])} :
           Commit("handle_modification", chat, user, r, "value", text, 0, 0)

ButtonAnnulerModif ==
  \E chat \in ActiveChats, user \in Users : \E f \in Faults(1..1, chat) :
    \E k \in Shown(chat, {"modifier"}) :
      /\ tg.next[chat] <= MaxEditMsg
      /\ \E r \in {button_annuler_modif(db, tg, f, chat, k[2], user_data[user])} :
           Commit("button_handler", chat, user, r, "cancel_edit", "", k[2], 0)

ButtonSupprimer ==
  \E chat \in ActiveChats, user \in Users : \E f \in Faults(1..1, chat) :
    \E k \in Shown(chat, {"temp", "retour"}) :
      /\ tg.next[chat] <= MaxEditMsg
      /\ \E r \in {button_supprimer_retour(db, tg, f, chat, k[2], user_data[user])} :
           Commit("button_handler", chat, user, r, "delete", "", k[2], 0)

ButtonConfirmer ==
  \E chat \in ActiveChats, user \in Users : \E f \in Faults(1..3, chat) :
    \E k \in Shown(chat, {"confirm"}) :
      /\ tg.next[chat] <= MaxEditMsg
      /\ \E r \in {button_confirmer_suppression(db, tg, f, chat, k[2],
                                                user_data[user])} :
           Commit("button_handler", chat, user, r, "confirm", "", k[2], 0)

ButtonAnnulerSuppression ==
  \E chat \in ActiveChats, user \in Users : \E f \in Faults(1..1, chat) :
    \E k \in Shown(chat, {"confirm"}) :
      /\ tg.next[chat] <= MaxEditMsg
      /\ \E r \in {button_annuler_suppression(db, tg, f, chat, k[2],
                                              user_data[user])} :
           Commit("button_handler", chat, user, r, "cancel_delete", "", k[2], 0)

NextEdit ==
  \/ ButtonModifier
  \/ ButtonModif
  \/ TextModification
  \/ ButtonAnnulerModif
  \/ ButtonSupprimer
  \/ ButtonConfirmer
  \/ ButtonAnnulerSuppression

SpecEdit == InitEdit /\ [][NextEdit]_vars

(***************************************************************************)
(* SpecWrites: the four handlers that write to the database and then       *)
(* render: the end of the form (INSERT), the status buttons under a record *)
(* (UPDATE statut), the new value of a field (UPDATE field) and the        *)
(* confirmed deletion (DELETE), from the empty database.                   *)
(***************************************************************************)
\* the messages a chat has got at most when a button under a record is pressed
MaxWritesMsg == 5

WritesBound == \A chat \in BotChats : tg.next[chat] <= MaxWritesMsg

WritesStatut == WritesBound /\ ButtonStatut

WritesModifier == WritesBound /\ ButtonModifier

WritesModif == WritesBound /\ ButtonModif

WritesModification == WritesBound /\ TextModification

WritesSupprimer == WritesBound /\ ButtonSupprimer

WritesConfirmer == WritesBound /\ ButtonConfirmer

NextWrites ==
  \/ CmdAfwerken
  \/ ButtonAjouter
  \/ TextAdresse
  \/ TextMateriel
  \/ ButtonPasser
  \/ WritesStatut
  \/ WritesModifier
  \/ WritesModif
  \/ WritesModification
  \/ WritesSupprimer
  \/ WritesConfirmer

SpecWrites == Init /\ [][NextWrites]_vars

(***************************************************************************)
(* SpecPaged: the two lists of a group with more records than a page has,  *)
(* their page buttons, the status buttons of the status list, and the      *)
(* deletion of a record under its message.  It starts after eleven records *)
(* were created in group g1, four in each second, every second one marked  *)
(* done since, with the menu that confirmed the last; group g2 has a       *)
(* record under the message id of the first.                               *)
(***************************************************************************)
\* the status of record id at the start
PagedStatut(id) == IF id % 2 = 0 THEN "fait" ELSE "en_attente"

PagedStore ==
  [retours |-> {EditRow(i, 3 * i, "g1", "a", "", (i - 1) \div 4, PagedStatut(i))
                  : i \in 1..PagedRows}
               \cup {EditRow(PagedRows + 1, 3, "g2", "a", "", 0,
                             PagedStatut(PagedRows + 1))},
   seq |-> PagedRows + 1]

\* the messages of g1 then: for each record the menu its form was started from
\* and its message, and the menu that confirmed the last
PagedPlatform ==
  [InitPlatform EXCEPT
     !.msgs = [k \in {"g1"} \X (1..(3 * PagedRows + 1)) \ {<<"g1", 3 * i - 1>> : i \in 1..PagedRows} |->
                 IF k[2] % 3 = 0
                   THEN format_retour_message("a", "", "a", PagedStatut(k[2] \div 3),
                                              (k[2] \div 3 - 1) \div 4, "")
                 ELSE IF k[2] = 3 * PagedRows + 1 THEN MenuMsg("Afwerking toegevoegd")
                 ELSE IF k[2] = 1 THEN Msg("plain", "Afwerkingen beheer")
                 ELSE Msg("plain", "Afwerking toegevoegd")],
     !.next["g1"] = 3 * PagedRows + 2]

InitPaged ==
  /\ db = PagedStore
  /\ now = (PagedRows - 1) \div 4
  /\ tieOrder \in TieOrders
  /\ calls = 0
  /\ last = NoCall
  /\ paging = NoPaging
  /\ tg = PagedPlatform
  /\ user_data = [u \in Users |-> EmptyDict]
  /\ conv = [k \in BotChats \X Users |-> "END"]
  /\ ev = NoEvent
  /\ sess = [k \in BotChats \X Users |-> NoSession]

\* the records whose buttons the operators press, by message id: the first and
\* the last of the oldest second, of which one or the other comes last in the
\* list, alone on its second page
PagedTargets == {3, 12}

\* the last message id at which a handler runs
MaxPagedMsg == 3 * PagedRows + 1 + MaxPagedPosts

\* the pages the page buttons under list message m lead to
PageButtons(m) ==
  IF m.pages > 1
    THEN (IF m.page > 0 THEN {m.page - 1} ELSE {})
         \cup (IF m.page < m.pages - 1 THEN {m.page + 1} ELSE {})
    ELSE {}

\* the ids of the records whose status is not the one of the start
Toggled(rows) == {r.id : r \in {x \in rows : x.statut # PagedStatut(x.id)}}

\* "Zie afwerking" under a menu
PagedVoir ==
  \E chat \in ActiveChats, user \in Users : \E f \in Faults(1..2, chat) :
    \E k \in Shown(chat, {"menu"}) :
      /\ tg.next[chat] <= MaxPagedMsg
      /\ \E r \in {voir_retours_handler(db, tg, f, chat, k[2], 0, tieOrder,
                                        user_data[user])} :
           Commit("voir_retours_handler", chat, user, r, "view", "", k[2], 0)

\* "Vorige" and "Volgende" under the list of records
PagedVoirPage ==
  \E chat \in ActiveChats, user \in Users : \E f \in Faults(1..2, chat) :
    \E k \in Shown(chat, {"viewlist"}) : \E page \in PageButtons(tg.msgs[k]) :
      /\ tg.next[chat] <= MaxPagedMsg
      /\ \E r \in {voir_retours_handler(db, tg, f, chat, k[2], page, tieOrder,
                                        user_data[user])} :
           Commit("voir_retours_page_handler", chat, user, r, "view_page", "", k[2], 0)

\* "Statut wijzigen" under a menu
PagedChangerStatut ==
  \E chat \in ActiveChats, user \in Users : \E f \in Faults(1..2, chat) :
    \E k \in Shown(chat, {"menu"}) :
      /\ tg.next[chat] <= MaxPagedMsg
      /\ \E r \in {changer_statut_handler(db, tg, f, chat, k[2], 0, tieOrder,
                                          user_data[user])} :
           Commit("changer_statut_handler", chat, user, r, "list", "", k[2], 0)

\* "Vorige" and "Volgende" under the status list
PagedChangerStatutPage ==
  \E chat \in ActiveChats, user \in Users : \E f \in Faults(1..2, chat) :
    \E k \in Shown(chat, {"statlist"}) : \E page \in PageButtons(tg.msgs[k]) :
      /\ tg.next[chat] <= MaxPagedMsg
      /\ \E r \in {changer_statut_handler(db, tg, f, chat, k[2], page, tieOrder,
                                          user_data[user])} :
           Commit("changer_statut_page_handler", chat, user, r, "list_page", "", k[2], 0)

\* a record's button under the status list: changer_statut_select_<message_id>_<page>
PagedSelect ==
  \E chat \in ActiveChats, user \in Users : \E f \in Faults(1..2, chat) :
    \E k \in Shown(chat, {"statlist"}) : \E i \in DOMAIN tg.msgs[k].sel :
      /\ tg.next[chat] <= MaxPagedMsg
      /\ tg.msgs[k].sel[i].message_id \in PagedTargets
      /\ Cardinality(Toggled(db.retours)
                     \cup {r.id : r \in WhereKey(db.retours,
                                                 tg.msgs[k].sel[i].message_id, chat)})
           <= MaxToggled
      /\ \E r \in {changer_statut_select_handler(db, tg, f, chat, k[2],
                                                 tg.msgs[k].sel[i].message_id,
                                                 tg.msgs[k].page, tieOrder,
                                                 user_data[user])} :
           Commit("changer_statut_select_handler", chat, user, r, "select", "", k[2],
                  tg.msgs[k].sel[i].message_id)

\* "Terug naar menu" under a list
PagedMenu ==
  \E chat \in ActiveChats, user \in Users : \E f \in Faults(1..2, chat) :
    \E k \in Shown(chat, {"statlist", "viewlist"}) :
      /\ tg.next[chat] <= MaxPagedMsg
      /\ \E r \in {menu_principal_handler(db, tg, f, chat, k[2], user_data[user])} :
           Commit("menu_principal_handler", chat, user, r, "back", "", k[2], 0)

\* "Verwijderen" under a record's message, one deletion asked at a time
PagedSupprimer ==
  \E chat \in ActiveChats, user \in Users : \E f \in Faults(1..1, chat) :
    \E k \in Shown(chat, {"retour"}) :
      /\ tg.next[chat] <= MaxPagedMsg
      /\ k[2] \in PagedTargets
      /\ db.seq - Cardinality(db.retours) < MaxDeleted
      /\ Shown(chat, {"confirm"}) = {}
      /\ \E r \in {button_supprimer_retour(db, tg, f, chat, k[2], user_data[user])} :
           Commit("button_handler", chat, user, r, "delete", "", k[2], 0)

\* "Bevestigen" under the confirmation question
PagedConfirmer ==
  \E chat \in ActiveChats, user \in Users : \E f \in Faults(1..3, chat) :
    \E k \in Shown(chat, {"confirm"}) :
      /\ tg.next[chat] <= MaxPagedMsg
      /\ \E r \in {button_confirmer_suppression(db, tg, f, chat, k[2],
                                                user_data[user])} :
           Commit("button_handler", chat, user, r, "confirm", "", k[2], 0)

NextPaged ==
  \/ PagedVoir
  \/ PagedVoirPage
  \/ PagedChangerStatut
  \/ PagedChangerStatutPage
  \/ PagedSelect
  \/ PagedMenu
  \/ PagedSupprimer
  \/ PagedConfirmer

SpecPaged == InitPaged /\ [][NextPaged]_vars

(***************************************************************************)
(* SpecStray: the status buttons pressed for a record that the group does  *)
(* not have.  It starts as SpecEdit does, with one more message in g1: the *)
(* message of a record that is not in the database (the handlers parse     *)
(* such messages, "retrocompatibilite"), under a message id that a record  *)
(* of g2 has.  The status list goes stale when a record shown in it is     *)
(* deleted under its message.                                              *)
(***************************************************************************)
StrayStore ==
  [retours |-> EditStore.retours \cup {EditRow(4, 1, "g2", "a", "", 1, "en_attente")},
   seq |-> 4]

StrayPlatform ==
  [EditPlatform EXCEPT
     !.msgs[<<"g1", 1>>] = format_retour_message("a", "", "a", "en_attente", 0, "")]

InitStray ==
  /\ db = StrayStore
  /\ now = 1
  /\ tieOrder \in TieOrders
  /\ calls = 0
  /\ last = NoCall
  /\ paging = NoPaging
  /\ tg = StrayPlatform
  /\ user_data = [u \in Users |-> EmptyDict]
  /\ conv = [k \in BotChats \X Users |-> "END"]
  /\ ev = NoEvent
  /\ sess = [k \in BotChats \X Users |-> NoSession]

\* the messages a chat has got at most when a button is pressed
MaxStrayMsg == 8

StrayBound == \A chat \in BotChats : tg.next[chat] <= MaxStrayMsg

\* the records whose status is not the one of the start
StrayToggled == {r \in db.retours : r \notin StrayStore.retours}

\* the status buttons, until MaxToggled records have changed
StrayStatut == StrayBound /\ Cardinality(StrayToggled) < MaxToggled /\ ButtonStatut

StrayChangerStatut == StrayBound /\ PagedChangerStatut

StraySelect ==
  StrayBound /\ Cardinality(StrayToggled) < MaxToggled /\ ButtonChangerStatutSelect

\* "Verwijderen" under a record's message, one deletion asked at a time
StraySupprimer ==
  /\ StrayBound
  /\ db.seq - Cardinality(db.retours) < MaxDeleted
  /\ Shown("g1", {"confirm"}) = {}
  /\ ButtonSupprimer

StrayConfirmer == StrayBound /\ ButtonConfirmer

NextStray ==
  \/ StrayStatut
  \/ StrayChangerStatut
  \/ StraySelect
  \/ StraySupprimer
  \/ StrayConfirmer

SpecStray == InitStray /\ [][NextStray]_vars

(***************************************************************************)
(* SpecPager: the page buttons of the two list keyboards, as functions of  *)
(* the page and the number of pages, followed from page 0 of lists of up   *)
(* to MaxPagerPages pages.  last is the keyboard shown: its list, its page *)
(* and number of pages, and the button that led to it.                     *)
(***************************************************************************)
MaxPagerPages == 8

\* callback data, as the parts between its underscores
PageData(base_callback, page) == Append(base_callback, page)

\* get_pagination_keyboard with "Volgende" offered on the last page too
get_pagination_keyboard_PastEnd(page, total_pages, base_callback) ==
  IF total_pages > 1
    THEN (IF page > 0
            THEN {[text |-> "Vorige", callback_data |-> PageData(base_callback, page - 1)]}
            ELSE {})
         \cup (IF page <= total_pages - 1
                 THEN {[text |-> "Volgende",
                        callback_data |-> PageData(base_callback, page + 1)]}
                 ELSE {})
    ELSE {}

\* get_pagination_keyboard, lines 365-372: the buttons "Vorige" and "Volgende"
get_pagination_keyboard(page, total_pages, base_callback) ==
  IF total_pages > 1
    THEN (IF page > 0
            THEN {[text |-> "Vorige", callback_data |-> PageData(base_callback, page - 1)]}
            ELSE {})
         \cup (IF page < total_pages - 1
                 THEN {[text |-> "Volgende",
                        callback_data |-> PageData(base_callback, page + 1)]}
                 ELSE {})
    ELSE {}

\* get_liste_statut_keyboard, lines 398-407: its buttons "Vorige" and "Volgende"
liste_statut_pagination(page, total_pages) ==
  IF total_pages > 1
    THEN (IF page > 0
            THEN {[text |-> "Vorige",
                   callback_data |-> PageData(<<"changer", "statut", "page">>, page - 1)]}
            ELSE {})
         \cup (IF page < total_pages - 1
                 THEN {[text |-> "Volgende",
                        callback_data |-> PageData(<<"changer", "statut", "page">>,
                                                   page + 1)]}
                 ELSE {})
    ELSE {}

\* the page buttons under the list that call names
PagerKeyboard(call) ==
  IF call.op = "voir_retours_page"
    THEN get_pagination_keyboard(call.page, call.total_pages, <<"voir", "retours", "page">>)
    ELSE liste_statut_pagination(call.page, call.total_pages)

\* voir_retours_page_handler, changer_statut_page_handler:
\* page = int(query.data.split("_")[-1])
page_of(callback_data) == callback_data[Len(callback_data)]

InitPager ==
  /\ db = [retours |-> {}, seq |-> 0]
  /\ now = 0
  /\ tieOrder = "rowid_asc"
  /\ calls = 0
  /\ \E op \in {"voir_retours_page", "changer_statut_page"}, n \in 1..MaxPagerPages :
       last = [NoCall EXCEPT !.op = op, !.page = 0, !.total_pages = n]
  /\ paging = NoPaging
  /\ InitBot

\* a page button under the list is pressed and the list of its page is shown
PagerPress ==
  \E b \in PagerKeyboard(last) :
    /\ last' = [last EXCEPT !.page = page_of(b.callback_data), !.arg = b.text]
    /\ UNCHANGED <<db, now, tieOrder, calls, paging, botVars>>

NextPager == PagerPress

SpecPager == InitPager /\ [][NextPager]_vars

(***************************************************************************)
(* SpecParse: format_retour_message and parse_retour_message on texts.  A  *)
(* text is a sequence of pieces: a letter, a space, a line break, or one   *)
(* of the labels the two functions write and look for.  last is the call:  *)
(* row the record formatted, rows the text, value the dict parsed.         *)
(***************************************************************************)
\* the longest value of a field, in pieces
MaxValueLen == 3

\* the pieces of the values operators type
ValueChars == {"x", "\n", "Adres :"}

Whitespace == {" ", "\n"}

\* str.strip()
RECURSIVE lstrip(_)
lstrip(s) == IF s # <<>> /\ Head(s) \in Whitespace THEN lstrip(Tail(s)) ELSE s

RECURSIVE rstrip(_)
rstrip(s) ==
  IF s # <<>> /\ s[Len(s)] \in Whitespace THEN rstrip(SubSeq(s, 1, Len(s) - 1)) ELSE s

strip_text(s) == rstrip(lstrip(s))

\* str.split('\n')
RECURSIVE split_lines(_)
split_lines(s) ==
  IF \A i \in DOMAIN s : s[i] # "\n" THEN <<s>>
  ELSE LET i == CHOOSE j \in DOMAIN s : s[j] = "\n" /\ \A k \in 1..(j - 1) : s[k] # "\n"
       IN <<SubSeq(s, 1, i - 1)>> \o split_lines(SubSeq(s, i + 1, Len(s)))

\* line.replace(label, '')
replace_label(line, label) == SelectSeq(line, LAMBDA c : c # label)

\* the values a record can hold in a text column: what operators type, stripped
\* (collect_adresse, collect_materiel, collect_extra_info, handle_modification)
\* and not empty
ValueTexts ==
  {v \in UNION {[1..n -> ValueChars] : n \in 1..MaxValueLen} : strip_text(v) = v}

\* format_retour_message, lines 302-324, as text
format_retour_text(adresse, materiel, statut, date_formatee, extra_info) ==
  <<"AFWERKING", "\n", "\n">>
  \o <<"Adres :", " ">> \o adresse \o <<"\n">>
  \o <<"Materiaal :", " ">> \o materiel \o <<"\n">>
  \o (IF extra_info # <<>>
        THEN <<"Extra informatie :", " ">> \o extra_info \o <<"\n">> ELSE <<>>)
  \o <<IF statut = "fait" THEN "Status : Gedaan" ELSE "Status : In afwachting", "\n">>
  \o <<"Gemaakt op :", " ", date_formatee>>

\* parse_retour_message, lines 332-344: what one line adds to data
parse_line(data, stripped) ==
  LET field(key, label) == Put(data, key, strip_text(replace_label(stripped, label)))
  IN IF stripped = <<>> THEN data
     ELSE CASE Head(stripped) = "Klant :" -> field("nom", "Klant :")
            [] Head(stripped) = "Adres :" -> field("adresse", "Adres :")
            [] Head(stripped) = "Te doen :" -> field("description", "Te doen :")
            [] Head(stripped) = "Extra informatie :" ->
                 field("extra_info", "Extra informatie :")
            [] Head(stripped) = "Materiaal :" -> field("materiel", "Materiaal :")
            [] OTHER -> data

RECURSIVE parse_lines(_, _)
parse_lines(data, lines) ==
  IF lines = <<>> THEN data
  ELSE parse_lines(parse_line(data, strip_text(Head(lines))), Tail(lines))

\* parse_retour_message, lines 326-347, of a text
parse_retour_text(message_text) == parse_lines(EmptyDict, split_lines(message_text))

InitParse ==
  /\ db = [retours |-> {}, seq |-> 0]
  /\ now = 0
  /\ tieOrder = "rowid_asc"
  /\ calls = 0
  /\ \E adresse \in ValueTexts, materiel \in ValueTexts, extra_info \in ValueTexts :
       last = [NoCall EXCEPT !.row = [None EXCEPT !.adresse = adresse,
                                                  !.materiel = materiel,
                                                  !.description = extra_info]]
  /\ paging = NoPaging
  /\ InitBot

\* the record is shown: format_retour_message of its columns
ParseFormat ==
  /\ last.op = "none"
  /\ last' = [last EXCEPT !.op = "format_retour_message",
                          !.rows = format_retour_text(last.row.adresse,
                                                      last.row.materiel, "en_attente",
                                                      "Onbekend", last.row.description)]
  /\ UNCHANGED <<db, now, tieOrder, calls, paging, botVars>>

\* the text shown is parsed: parse_retour_message(query.message.text)
ParseText ==
  /\ last.op = "format_retour_message"
  /\ last' = [last EXCEPT !.op = "parse_retour_message",
                          !.value = parse_retour_text(last.rows)]
  /\ UNCHANGED <<db, now, tieOrder, calls, paging, botVars>>

NextParse ==
  \/ ParseFormat
  \/ ParseText

SpecParse == InitParse /\ [][NextParse]_vars

(***************************************************************************)
(* Claims about the record store, checked under SpecStore.                 *)
(***************************************************************************)
\* a step that is a call of one of the functions ops
Called(ops) == calls' # calls /\ last'.op \in ops

\* the rows of the other groups than chat_id
Outside(rows, chat_id) == {r \in rows : r.chat_id # chat_id}

\* C1 (read part): get(G2, X) returns None unless a record (G2, X) exists and
\* then returns that record, and a list of G2 holds records of G2 only.
C1_ReadsScoped ==
  /\ last.op = "get_retour_by_message_id" =>
       IF \E r \in db.retours : r.message_id = last.message_id /\ r.chat_id = last.chat_id
         THEN /\ last.row \in db.retours
              /\ last.row.message_id = last.message_id
              /\ last.row.chat_id = last.chat_id
         ELSE last.row = None
  /\ last.op \in {"get_retours_paginated", "get_all_retours"} =>
       \A i \in DOMAIN last.rows : last.rows[i].chat_id = last.chat_id

\* C1 (write part): update_field, update_status and delete addressed to (G2, X)
\* leave every record of every other group exactly as it was.
C1_WritesScoped ==
  Called({"update_retour_in_db", "update_statut_in_db", "delete_retour_from_db"}) =>
    Outside(db'.retours, last'.chat_id) = Outside(db.retours, last'.chat_id)

\* C1: group isolation: a record created under (G1, X) is invisible to get and
\* list_page of another group G2 and untouched by update_field, update_status
\* and delete addressed to (G2, X).
C1_GroupIsolation == [](C1_ReadsScoped) /\ [][C1_WritesScoped]_vars

\* C1 witness: a delete addressed to (g2, X) has run while a record (g1, X)
\* exists and no record (g2, X) does.
C1_Witness ==
  /\ last.op = "delete_retour_from_db" /\ last.chat_id = "g2"
  /\ \E r \in db.retours : r.message_id = last.message_id /\ r.chat_id = "g1"

\* C2: in every reachable store state no two records share the same
\* (group_key, external_ref) = (chat_id, message_id) pair.
C2_UniqueKey ==
  \A r1, r2 \in db.retours :
    (r1.message_id = r2.message_id /\ r1.chat_id = r2.chat_id) => r1 = r2

\* C2 witness: a group reassignment onto a key that is taken was attempted.
C2_Witness ==
  /\ last.op = "update_chat_id_in_db" /\ last.err = "IntegrityError"
  /\ Cardinality(db.retours) >= 2

\* the allow-list as the specification states it: address, materials,
\* description/extra_notes, client_name, scheduled_date
C3_AllowList == {"adresse", "materiel", "description", "nom_client", "date"}

\* C3: update_field with a field name outside the allow-list raises the
\* invalid-field error (ValueError) and leaves every row unchanged.
C3_AllowListEnforced ==
  [][(Called({"update_retour_in_db"}) /\ last'.arg \notin C3_AllowList)
       => (last'.err = "ValueError" /\ db' = db)]_vars

\* C3 witness: update_field(g, x, "chat_id", ...) on an existing record was rejected.
C3_Witness ==
  /\ last.op = "update_retour_in_db" /\ last.arg = "chat_id" /\ last.err = "ValueError"
  /\ \E r \in db.retours : r.message_id = last.message_id /\ r.chat_id = last.chat_id

\* C4: update_status is idempotent: a second update_status(g, x, s) right after
\* the first leaves the store as the first left it and raises nothing.
C4_StatusIdempotent ==
  [][(Called({"update_statut_in_db"}) /\ last'.rep)
       => (db' = db /\ last'.err = "none")]_vars

\* C4 witness: update_status(g, x, "fait") ran twice in a row on an existing record.
C4_Witness ==
  /\ last.op = "update_statut_in_db" /\ last.rep /\ last.value = "fait"
  /\ \E r \in db.retours :
       r.message_id = last.message_id /\ r.chat_id = last.chat_id /\ r.statut = "fait"

\* C6: delete removes at most one row, never raises, and leaves the store
\* unchanged when no record has the key.
C6_DeleteAtMostOne ==
  [][Called({"delete_retour_from_db"}) =>
       /\ last'.err = "none"
       /\ db'.retours \subseteq db.retours
       /\ Cardinality(db.retours \ db'.retours) <= 1
       /\ (~ \E r \in db.retours :
               r.message_id = last'.message_id /\ r.chat_id = last'.chat_id)
            => db' = db]_vars

\* C6 witness: a delete of a key no record has, on a store that holds records.
C6_Witness ==
  /\ last.op = "delete_retour_from_db" /\ last.err = "none"
  /\ db.retours # {}
  /\ ~ \E r \in db.retours : r.message_id = last.message_id /\ r.chat_id = last.chat_id
  /\ \E r \in db.retours : r.message_id = last.message_id

\* C8 (as claimed): a list is ordered by created_at descending and, for equal
\* created_at, by id descending.
C8_ListNewestFirst ==
  last.op \in {"get_retours_paginated", "get_all_retours"} =>
    \A i, j \in DOMAIN last.rows :
      i < j => \/ last.rows[i].date_creation > last.rows[j].date_creation
               \/ /\ last.rows[i].date_creation = last.rows[j].date_creation
                  /\ last.rows[i].id > last.rows[j].id

(***************************************************************************)
(* Claims about pagination, checked under SpecList.                        *)
(***************************************************************************)
\* the records of the group being paged
PagedGroup == {r \in db.retours : r.chat_id = paging.chat_id}

\* C9: the pages 0..ceil(N/10)-1 of a group, fetched with no write in between,
\* together hold every record of the group exactly once and no record of
\* another group.
C9_PagesPartition ==
  (paging.walk /\ paging.page + 1 >= paging.total_pages) =>
    /\ Len(paging.seen) = Cardinality(PagedGroup)
    /\ {paging.seen[i] : i \in DOMAIN paging.seen} = PagedGroup

\* C9 witness: both pages of a group of more than ten records were fetched
\* with page_size 10 while the other group holds records too.
C9_Witness ==
  /\ paging.walk /\ paging.per_page = 10
  /\ paging.page = 1 /\ paging.total_pages = 2
  /\ Len(paging.seen) > 10
  /\ \E r \in db.retours : r.chat_id # paging.chat_id

\* ceil(n / d) for d > 0
CeilDiv(n, d) == IF n = 0 THEN 0 ELSE CHOOSE p \in 1..n : (p - 1) * d < n /\ n <= p * d

\* C10: list_page returns total_count = N and total_pages = ceil(N / page_size),
\* 0 when N = 0, whatever the requested page.
C10_Totals ==
  paging.per_page > 0 =>
    /\ paging.total = Cardinality(PagedGroup)
    /\ paging.total_pages = CeilDiv(Cardinality(PagedGroup), paging.per_page)

\* C10 witness: a page beyond the last was asked for on a group of eleven
\* records with page_size 10, and two pages were reported.
C10_Witness ==
  /\ paging.per_page = 10 /\ paging.page = 3
  /\ paging.total = 11 /\ paging.total_pages = 2
  /\ paging.rows = <<>>


(***************************************************************************)
(* Claims about the bot: the handlers of Spec.                             *)
(***************************************************************************)
\* C5: in every reachable state, after any sequence of creations, standalone
\* status button presses and list status-select presses, the status of every
\* record is one of en_attente and fait.
C5_StatusEnum == \A r \in db.retours : r.statut \in Statuts

\* a list status-select has just set a record, created en_attente, to fait
C5_Witness ==
  /\ ev.handler = "changer_statut_select_handler"
  /\ ev.notice = "toggled"
  /\ \E r \in db.retours : r.statut = "fait"

\* the step is a run of collect_extra_info to its end whose add_retour_to_db
\* was called with a (message_id, chat_id) that a record already holds
C7_CreateOnTakenKey ==
  /\ conv' # conv
  /\ ev'.handler = "collect_extra_info"
  /\ ev'.insert # <<>>
  /\ \E r \in db.retours : <<r.message_id, r.chat_id>> = ev'.insert

\* the menu message with the failure notice is new in the chat of the update
C7_NoticePosted ==
  \E k \in DOMAIN tg'.msgs \ DOMAIN tg.msgs :
    /\ k[1] = ev'.chat
    /\ tg'.msgs[k] = MenuMsg("Fout bij het toevoegen")

\* C7, as amended: a create on a (message_id, chat_id) that already exists
\* fails with IntegrityError, the database is left as it was (the existing
\* record unchanged, no second record), and the creation flow posts the
\* failure notice with the menu; the operator sees it unless the platform
\* refuses that very post, which is then only logged.
C7_DuplicateCreateFails ==
  [][C7_CreateOnTakenKey =>
       /\ ev'.dberr = "IntegrityError"
       /\ db' = db
       /\ ev'.notice \in {"failure", "failure_lost"}
       /\ (tg'.fails = tg.fails => ev'.notice = "failure" /\ C7_NoticePosted)]_vars

\* a creation has hit a taken key and the operator has got the failure notice
C7_Witness ==
  /\ ev.handler = "collect_extra_info"
  /\ ev.dberr = "IntegrityError"
  /\ ev.notice = "failure"
  /\ \E r \in db.retours : <<r.message_id, r.chat_id>> = ev.insert

\* C7, as claimed: a create on a (message_id, chat_id) that already exists
\* fails with a duplicate-key error, the existing record is unchanged, no second
\* record is added, and the creation flow surfaces the failure notice to the
\* operator.
C7_FailureAlwaysSurfaced ==
  [][C7_CreateOnTakenKey =>
       /\ ev'.dberr = "IntegrityError"
       /\ db' = db
       /\ ev'.notice = "failure"
       /\ C7_NoticePosted]_vars


(***************************************************************************)
(* Claims about the form that creates a record, checked under SpecForm.    *)
(***************************************************************************)
Collecting == {"COLLECTING_ADRESSE", "COLLECTING_MATERIEL", "COLLECTING_EXTRA_INFO"}

\* the step is a handler run for the operator's step
Handled(step) == ev'.run # ev.run /\ ev'.step = step

\* the conversation and the form of the update the step handles
StepKey == <<ev'.chat, ev'.user>>

\* the step handles "Passer" in a form whose steps so far were the start, an
\* address and a material, in this order and with nothing in between
C11_SkipAfterInputs ==
  /\ Handled("skip")
  /\ sess[StepKey].steps = <<"start", "adresse", "materiel">>

\* the step adds exactly one record, in the group of the form (or the
\* supergroup it has become), en_attente, with this address and material and
\* without notes, and changes no other record
C11_OneRecord(adresse, materiel) ==
  \E row \in db'.retours \ db.retours :
    /\ db'.retours = db.retours \cup {row}
    /\ row.chat_id \in {ev'.chat, tg'.migrated[ev'.chat]}
    /\ row.statut = "en_attente"
    /\ row.adresse = adresse
    /\ row.materiel = materiel
    /\ row.description = ""

C12_CancelAtStep ==
  /\ Handled("cancel")
  /\ conv[StepKey] \in Collecting

\* where the form's status message is, by user_data before the step
C12_Display ==
  <<Get(user_data[ev'.user], "status_chat_id", ""),
    Get(user_data[ev'.user], "status_message_id", 0)>>

C13_CancelEndsSession ==
  [][/\ C12_CancelAtStep => conv'[StepKey] \notin Collecting
     /\ (ev.step = "cancel" /\ ev'.run # ev.run /\ StepKey = <<ev.chat, ev.user>>)
          => ev'.step \notin {"adresse", "materiel", "extra"}]_vars

\* C17: the conversation enters COLLECTING_ADRESSE only by the start button,
\* COLLECTING_MATERIEL only from COLLECTING_ADRESSE by an address,
\* COLLECTING_EXTRA_INFO only from COLLECTING_MATERIEL by a material, and a
\* record is created only from COLLECTING_EXTRA_INFO, in a form whose steps
\* were the start, an address and a material, in this order.
C17_StepsInOrder ==
  [][/\ \A k \in DOMAIN conv :
          conv'[k] # conv[k] =>
            /\ k = StepKey /\ ev'.run # ev.run
            /\ conv'[k] = "COLLECTING_ADRESSE" => ev'.step = "start"
            /\ conv'[k] = "COLLECTING_MATERIEL" =>
                 conv[k] = "COLLECTING_ADRESSE" /\ ev'.step = "adresse"
            /\ conv'[k] = "COLLECTING_EXTRA_INFO" =>
                 conv[k] = "COLLECTING_MATERIEL" /\ ev'.step = "materiel"
     /\ db'.retours # db.retours =>
          /\ ev'.run # ev.run /\ ev'.step \in {"skip", "extra"}
          /\ conv[StepKey] = "COLLECTING_EXTRA_INFO"
          /\ sess[StepKey].steps = <<"start", "adresse", "materiel">>]_vars

\* a form has run from its start through an address, a material and notes to
\* its record
C17_Witness ==
  /\ ev.step = "extra" /\ ev.notice = "added"
  /\ sess[<<ev.chat, ev.user>>].steps = <<"start", "adresse", "materiel", "extra">>
  /\ conv[<<ev.chat, ev.user>>] = "END"
  /\ \E r \in db.retours : r.description # ""

\* the step is a run of collect_extra_info in which add_retour_to_db raised
C20_CreateFailed ==
  /\ ev'.run # ev.run
  /\ ev'.handler = "collect_extra_info"
  /\ ev'.dberr # "none"

\* C20, as claimed: when the store create fails in the commit step, the
\* accumulator (address, material and notes given) is preserved and an error
\* is shown to the operator.
C20_AccumulatorKept ==
  [][C20_CreateFailed =>
       /\ Has(user_data'[ev'.user], "retour")
       /\ user_data'[ev'.user]["retour"] = user_data[ev'.user]["retour"]
       /\ ev'.notice = "failure"]_vars

(***************************************************************************)
(* Claims about the buttons under a record, checked under SpecEdit.        *)
(***************************************************************************)
\* the record user_data names for the edit, when it names one and a field
C14_Edited ==
  LET ud == user_data[ev'.user]
  IN IF Get(ud, "retour_data", EmptyDict) = EmptyDict
        \/ Get(ud, "modif_type", "") \notin {"adresse", "description", "materiel"}
       THEN {}
       ELSE WhereKey(db.retours, Get(ud, "message_id_editing", 0),
                     Get(ud, "chat_id_editing", ""))

\* the store after the run differs from the store before it in the field
\* chosen of the edited record, which is value, and in nothing else
C14_OnlyFieldIs(value) ==
  /\ db'.seq = db.seq
  /\ db'.retours =
       {IF r \in C14_Edited
          THEN [r EXCEPT ![user_data[ev'.user]["modif_type"]] = value] ELSE r
          : r \in db.retours}
  /\ \A r \in C14_Edited : \E r2 \in db'.retours :
       /\ \A c \in Columns \ {user_data[ev'.user]["modif_type"]} : r2[c] = r[c]
       /\ r2[user_data[ev'.user]["modif_type"]] = value

\* C14, amended: completing a field edit changes only the selected field of
\* the edited record, to the text submitted with the whitespace around it
\* stripped: every other field of the record, its key, status and creation
\* timestamp, and every other record are unchanged.
C14_EditChangesOneField ==
  [][Handled("value") => C14_OnlyFieldIs(strip(ev'.input))]_vars

\* the material of the first record of g1 was edited: it is the text typed
\* without its spaces, the address is as it was, and so are the record of g2
\* under the same message id and the second record of g1
C14_Witness ==
  /\ ev.step = "value" /\ ev.notice = "edited" /\ ev.input = " c "
  /\ db.retours = {[EditRow(1, 3, "g1", "a", "", 0, "en_attente") EXCEPT !.materiel = "c"],
                   EditRow(2, 3, "g2", "a", "", 0, "en_attente"),
                   EditRow(3, 6, "g1", "b", "b", 1, "fait")}

\* C14, as claimed: completing a field edit changes only the selected field of
\* the record, to the submitted value.
C14_EditWritesSubmitted ==
  [][Handled("value") => C14_OnlyFieldIs(ev'.input)]_vars

\* the step handles a press of button step under the message that the same
\* operator's delete request turned into the confirmation question
C18_Answered(step) ==
  /\ Handled(step)
  /\ Get(user_data[ev'.user], "message_id_suppression", 0) = ev'.msg
  /\ Get(user_data[ev'.user], "chat_id_suppression", "") = ev'.chat

\* the record addressed is gone from the store: a get finds nothing, no page of
\* its group's list has it, and no other record went with it
C18_RecordRemoved ==
  /\ db'.retours = db.retours \ WhereKey(db.retours, ev'.msg, ev'.chat)
  /\ db'.seq = db.seq
  /\ get_retour_by_message_id(db', ev'.msg, ev'.chat) = None
  /\ \A page \in 0..MaxPage, tie \in TieOrders :
       LET res == get_retours_paginated(db', ev'.chat, page, PER_PAGE, tie)
       IN \A i \in DOMAIN res.retours : res.retours[i].message_id # ev'.msg

C19_CancelKeepsAll ==
  [][C18_Answered("cancel_delete") =>
       /\ db' = db
       /\ <<ev'.chat, ev'.msg>> \in DOMAIN tg'.msgs
       /\ \/ tg'.msgs[<<ev'.chat, ev'.msg>>] = tg.msgs[<<ev'.chat, ev'.msg>>]
          \/ \E r \in WhereKey(db.retours, ev'.msg, ev'.chat) :
               tg'.msgs[<<ev'.chat, ev'.msg>>]
                 = format_retour_message(r.adresse, "", r.materiel,
                                         get_statut_from_retour(r), r.date_creation,
                                         r.description)]_vars

(***************************************************************************)
(* Claims about the lists, checked under SpecPaged.                        *)
(***************************************************************************)
\* the records a button of the status list addresses: message id sel in the
\* chat of the list
C15_Addressed == WhereKey(db.retours, ev'.sel, ev'.chat)

\* list message m of chat shows, row by row, the status the rows of its page
\* have in store d (and, under the status list, their buttons)
C15_ShowsStore(d, chat, m) ==
  LET rows == get_retours_paginated(d, chat, m.page, PER_PAGE, tieOrder).retours
  IN /\ Len(m.sel) = Len(rows)
     /\ \A i \in DOMAIN rows :
          /\ m.sel[i].statut = get_statut_from_retour(rows[i])
          /\ m.kind = "statlist" => m.sel[i].message_id = rows[i].message_id

\* the list messages the step rendered
C15_Rendered ==
  {k \in DOMAIN tg'.msgs :
     /\ tg'.msgs[k].kind \in {"statlist", "viewlist"}
     /\ k \in DOMAIN tg.msgs => tg'.msgs[k] # tg.msgs[k]}

\* C15: a status toggle from the status list flips the stored status of the
\* addressed record (and changes nothing else in the store), and every list
\* view rendered, by the toggle or by any later step, shows for each record of
\* its group and page the status the store has then: the new one, for the
\* record toggled.
C15_ToggleShown ==
  [][/\ (Handled("select") /\ C15_Addressed # {}) =>
          /\ db'.seq = db.seq
          /\ db'.retours =
               {IF r \in C15_Addressed
                  THEN [r EXCEPT !.statut = flip_statut(get_statut_from_retour(r))]
                  ELSE r : r \in db.retours}
     /\ \A k \in C15_Rendered : C15_ShowsStore(db', k[1], tg'.msgs[k])]_vars

\* after a toggle the operator has turned to a page of the status list, and it
\* shows the record toggled with its new status
C15_Witness ==
  /\ ev.step = "list_page"
  /\ <<ev.chat, ev.msg>> \in DOMAIN tg.msgs
  /\ tg.msgs[<<ev.chat, ev.msg>>].kind = "statlist"
  /\ \E r \in db.retours : \E i \in DOMAIN tg.msgs[<<ev.chat, ev.msg>>].sel :
       /\ r.chat_id = ev.chat /\ r.id \in Toggled(db.retours)
       /\ tg.msgs[<<ev.chat, ev.msg>>].sel[i].message_id = r.message_id
       /\ tg.msgs[<<ev.chat, ev.msg>>].sel[i].statut = r.statut

\* the status list of the page that the pressed list message carries in its
\* buttons, as the store has it after the step
C16_Refreshed ==
  LET page == tg.msgs[<<ev'.chat, ev'.msg>>].page
      r == get_retours_paginated(db', ev'.chat, page, PER_PAGE, tieOrder)
  IN get_liste_statut_keyboard("Statut wijzigen (bijgewerkt)", r.retours, page,
                               r.total_pages, r.total)

\* the platform refused the refresh of the list: the group migrated, or a call
\* failed and it was not the one that renders the record's message
C16_RefreshRefused ==
  \/ tg'.migrated # tg.migrated
  \/ /\ tg'.fails = tg.fails + 1
     /\ \E r \in WhereKey(db'.retours, ev'.sel, ev'.chat) :
          /\ <<ev'.chat, ev'.sel>> \in DOMAIN tg'.msgs
          /\ tg'.msgs[<<ev'.chat, ev'.sel>>]
               = format_retour_message(r.adresse, "", r.materiel,
                                       get_statut_from_retour(r), r.date_creation,
                                       r.description)

\* C16, as claimed: every successful toggle from the status list is followed by
\* a refresh of the list at the page index of the pressed button (the platform
\* permitting), whether the record's own message could be rendered or not.
C16_ToggleRefreshes ==
  [][(Handled("select") /\ ev'.notice = "toggled") =>
       \/ tg'.msgs[<<ev'.chat, ev'.msg>>] = C16_Refreshed
       \/ C16_RefreshRefused]_vars

(***************************************************************************)
(* Claims about what a failure leaves behind.                              *)
(***************************************************************************)
\* the kinds of message that carry the buttons of a record
RecordControls == {"temp", "retour", "modifier", "confirm"}

\* the messages that the step has posted and left in a chat
C21_Posted == DOMAIN tg'.msgs \ DOMAIN tg.msgs

\* C21, as claimed: a message with the controls of a record never exists
\* without a record behind it; when the create of the record fails, the step
\* leaves no message with record controls in the group.
C21_NoDisplayLeft ==
  [][C20_CreateFailed =>
       \A k \in C21_Posted : tg'.msgs[k].kind \notin RecordControls]_vars

\* C22, as claimed: a form that gets no step for the ten minutes of the idle
\* timeout is discarded: once the timeout has fired, the conversation is over
\* and the accumulator (the fields collected and the pointers to the status
\* message) is empty.
C22_IdleDiscarded ==
  [][Handled("timeout") =>
       /\ conv'[<<ev'.chat, ev'.user>>] = "END"
       /\ user_data'[ev'.user] = EmptyDict]_vars

(***************************************************************************)
(* Claims about the handlers that write and then render, checked under     *)
(* SpecWrites.                                                             *)
(***************************************************************************)
\* a platform call of the run was refused or raised, or the run reported that
\* it could not show its result
C23_RenderFailed ==
  \/ tg'.fails # tg.fails
  \/ ev'.raised # "none"
  \/ ev'.notice \in {"update_failed", "edit_failed", "message_left", "failure",
                     "failure_lost"}

\* the status button pressed under a record's message wrote its status
C23_StatutKept ==
  LET before == WhereKey(db.retours, ev'.msg, ev'.chat)
      statut == nouveau_statut(get_retour_keyboard(tg.msgs[<<ev'.chat, ev'.msg>>].statut))
  IN (Handled("statut") /\ before # {}) =>
       db'.retours = {IF r \in before THEN [r EXCEPT !.statut = statut] ELSE r
                        : r \in db.retours}

\* the text typed as the new value of a field is in the record
C23_FieldKept ==
  (Handled("value") /\ C14_Edited # {}) =>
    \A r \in C14_Edited :
      [r EXCEPT ![user_data[ev'.user]["modif_type"]] = strip(ev'.input)]
        \in db'.retours

\* the record whose deletion was confirmed is gone
C23_DeleteKept ==
  C18_Answered("confirm") => WhereKey(db'.retours, ev'.msg, ev'.chat) = {}

\* the record inserted at the end of the form is in the store, under the group
\* of its message or the supergroup that group has become
C23_CreateKept ==
  (/\ ev'.run # ev.run
   /\ ev'.handler = "collect_extra_info"
   /\ ev'.insert # <<>>
   /\ ev'.dberr = "none") =>
    \E r \in db'.retours \ db.retours :
      /\ r.message_id = ev'.insert[1]
      /\ r.chat_id \in {ev'.insert[2], tg'.migrated[ev'.insert[2]]}

\* C23: a render failure never rolls back a store write: when the edit, post
\* or delete of a message that follows a status update, a field update, a
\* record delete or a record create fails, the store still holds the result of
\* that write.
C23_WriteSurvivesRender ==
  [][C23_RenderFailed =>
       /\ C23_StatutKept
       /\ C23_FieldKept
       /\ C23_DeleteKept
       /\ C23_CreateKept]_vars

\* the status of a record was written and its message could not be edited
C23_Witness ==
  /\ ev.step = "statut"
  /\ ev.notice = "update_failed"
  /\ \E r \in WhereKey(db.retours, ev.msg, ev.chat) : r.statut = "fait"

\* C24, as claimed: a render (post, edit or delete of a message) that fails in
\* a handler is absorbed inside that handler: the handler returns normally and
\* no exception of a platform call leaves it.
C24_RenderAbsorbed ==
  [][ev'.run # ev.run =>
       ev'.raised \notin {"TelegramError", "BadRequest", "ChatMigrated"}]_vars

\* the texts of the error notices of the handlers and of error_handler
ErrorNotices ==
  {"Er is een fout opgetreden", "Fout bij het toevoegen", "Fout bij het verwijderen",
   "Fout bij het bewerken", "bewerkingsgegevens niet gevonden",
   "ongeldig bewerkingstype"}

\* C25, as claimed: every error notice shown to the operator on a failure path
\* has a menu or retry control attached; no failure path ends with a notice
\* that offers no control to continue.
C25_NoticeHasControl ==
  \A k \in DOMAIN tg.msgs :
    tg.msgs[k].text \in ErrorNotices => tg.msgs[k].kind = "menu"

(***************************************************************************)
(* Claims about the migration of a group to a supergroup.                  *)
(***************************************************************************)
\* the step is a run of collect_extra_info that inserted a record
C26_Created ==
  /\ ev'.run # ev.run
  /\ ev'.handler = "collect_extra_info"
  /\ ev'.insert # <<>>
  /\ ev'.dberr = "none"

\* the form's group raised ChatMigrated when the record's message was posted:
\* the form was opened in the old group and the message went to the new one
C26_AtPost ==
  /\ Get(user_data[ev'.user], "status_chat_id", "") = "g1"
  /\ ev'.insert[2] = tg'.migrated["g1"]

\* the group raised ChatMigrated at the final edit of the posted message: the
\* message was posted in the old group, the group has migrated during the
\* run, and the message there still has the temporary text
C26_AtFinalRender ==
  /\ ev'.insert[2] = "g1"
  /\ tg.migrated["g1"] = ""
  /\ tg'.migrated["g1"] # ""
  /\ tg'.msgs[<<"g1", ev'.insert[1]>>].kind = "temp"

\* the run has added one record: the one of the posted message, stored under
\* the new chat_id of the group
C26_StoredUnderNew ==
  \E r \in db'.retours :
    /\ db'.retours \ db.retours = {r}
    /\ r.message_id = ev'.insert[1]
    /\ r.chat_id = tg'.migrated["g1"]
    /\ WhereKey(db'.retours, ev'.insert[1], "g1")
         = WhereKey(db.retours, ev'.insert[1], "g1")

\* the group raised ChatMigrated at the edit of the status message of a form
\* step
C26_AtProgress ==
  /\ ev'.run # ev.run
  /\ ev'.handler \in {"collect_adresse", "collect_materiel"}
  /\ ev'.raised = "none"
  /\ Get(user_data[ev'.user], "status_chat_id", "") = "g1"
  /\ tg.migrated["g1"] = ""
  /\ tg'.migrated["g1"] # ""

C27_Identity(rows) ==
  {<<r.id, r.chat_id, r.message_id, r.date_creation>> : r \in rows}

\* C27: no field edit, status update or list operation changes the id, the
\* chat_id, the message_id or the date_creation of any record; the chat_id of
\* a record changes only through the UPDATE of chat_id made for a migration.
C27_IdentityFixed ==
  [][/\ Called({"update_retour_in_db", "update_statut_in_db", "get_all_retours",
                "get_retours_paginated", "get_retour_by_message_id"})
          => /\ C27_Identity(db'.retours) = C27_Identity(db.retours)
             /\ Cardinality(db'.retours) = Cardinality(db.retours)
     /\ (\E r \in db.retours, r2 \in db'.retours :
           r.id = r2.id /\ r.chat_id # r2.chat_id)
          => Called({"update_chat_id_in_db"})]_vars

\* a field edit and a status update were accepted on a record created a second
\* after the clock started
C27_Witness ==
  /\ last.op \in {"update_retour_in_db", "update_statut_in_db"}
  /\ last.err = "none"
  /\ \E r \in WhereKey(db.retours, last.message_id, last.chat_id) :
       /\ r.date_creation = 1
       /\ r.statut = "fait"
       /\ r.adresse = "b"

(***************************************************************************)
(* Claims about a status button pressed for a record the group does not    *)
(* have, checked under SpecStray.                                          *)
(***************************************************************************)
\* the step handles a status button, under a record's message or in the
\* status list, for a message id under which the group of the update has no
\* record
C28_Missing ==
  \/ Handled("statut") /\ WhereKey(db.retours, ev'.msg, ev'.chat) = {}
  \/ Handled("select") /\ WhereKey(db.retours, ev'.sel, ev'.chat) = {}

C29_PageButtonsInRange ==
  /\ last.page \in 0..(last.total_pages - 1)
  /\ \A b \in PagerKeyboard(last) :
       /\ b.text = "Vorige" =>
            last.page > 0 /\ page_of(b.callback_data) = last.page - 1
       /\ b.text = "Volgende" =>
            last.page < last.total_pages - 1
              /\ page_of(b.callback_data) = last.page + 1

\* the last page of the longest list was reached with "Volgende" and offers
\* "Vorige" only
C29_Witness ==
  /\ last.total_pages = MaxPagerPages
  /\ last.page = MaxPagerPages - 1
  /\ last.arg = "Volgende"
  /\ {b.text : b \in PagerKeyboard(last)} = {"Vorige"}

(***************************************************************************)
(* Claims about the text of a record, checked under SpecParse.             *)
(***************************************************************************)
\* C30, as claimed: for every record with address, materials and notes all
\* populated, parsing the text that format_retour_message gives for it returns
\* the address, the materials and the notes exactly as the record has them.
C30_ParseRecovers ==
  last.op = "parse_retour_message" =>
    /\ Get(last.value, "adresse", <<>>) = last.row.adresse
    /\ Get(last.value, "materiel", <<>>) = last.row.materiel
    /\ Get(last.value, "extra_info", <<>>) = last.row.description

(***************************************************************************)
(* Claims about the end of the form.                                       *)
(***************************************************************************)
\* the status message the form points to when the step starts
C31_Display ==
  <<Get(user_data[ev'.user], "status_chat_id", ""),
    Get(user_data[ev'.user], "status_message_id", 0)>>

\* the form is over: nothing of it is left in user_data and the conversation
\* has ended, so that a text typed next is not handled by the form
C31_Terminal ==
  /\ user_data'[ev'.user] = EmptyDict
  /\ conv'[StepKey] = "END"

C35_ConfirmDeletesPressed ==
  [][Handled("confirm") =>
       db'.retours = db.retours \ WhereKey(db.retours, ev'.msg, ev'.chat)]_vars


\* C36, as claimed: a value submitted right after a field was chosen is written
\* to the record whose message carried the field button the operator pressed,
\* whatever edit requests on other records the operator made before; no other
\* record is modified.
C36_ValueWrittenToPressed ==
  [][(/\ ev.step = "field" /\ ev.raised = "none"
      /\ Handled("value") /\ StepKey = <<ev.chat, ev.user>>)
       => \A r \in db.retours \ db'.retours :
            r \in WhereKey(db.retours, ev.msg, ev.chat)]_vars


\* C40, as claimed: cancelling an edit at the choice of the field leaves the
\* store unchanged and leaves the record's message showing the record's text
\* with the status, edit and delete buttons.
C40_CancelEditKeepsMessage ==
  [][Handled("cancel_edit") =>
       /\ db' = db
       /\ <<ev'.chat, ev'.msg>> \in DOMAIN tg'.msgs
       /\ \E r \in WhereKey(db.retours, ev'.msg, ev'.chat) :
            tg'.msgs[<<ev'.chat, ev'.msg>>]
              = format_retour_message(r.adresse, "", r.materiel,
                                      get_statut_from_retour(r), r.date_creation,
                                      r.description)]_vars


(***************************************************************************)
(* Claims about the notices of a creation.                                 *)
(***************************************************************************)
\* the last step of the form was handled
C39_CommitStep ==
  /\ ev'.run # ev.run
  /\ ev'.handler = "collect_extra_info"

\* C39, as claimed: when the last step of the form ends with the failure
\* notice the store holds no record of that creation, and when a record was
\* inserted the operator is shown the confirmation.
C39_NoticeMatchesStore ==
  [][C39_CommitStep =>
       /\ ev'.notice = "failure" => db'.retours = db.retours
       /\ C26_Created => ev'.notice = "added"]_vars


(***************************************************************************)
(* Claims about the accumulator of the form.                               *)
(***************************************************************************)
\* the fields of user_data['retour'] of user, none without the accumulator
C38_Fields(user) ==
  IF Has(user_data[user], "retour") THEN DOMAIN user_data[user]["retour"] ELSE {}

\* C38, as claimed: whenever the form of a group is at the question for the
\* materials the accumulator exists and holds an address, and whenever it is at
\* the question for the notes the accumulator holds an address and materials.
C38_AccumulatorComplete ==
  \A chat \in ActiveChats, user \in Users :
    /\ conv[<<chat, user>>] = "COLLECTING_MATERIEL"
         => Has(user_data[user], "retour") /\ "adresse" \in C38_Fields(user)
    /\ conv[<<chat, user>>] = "COLLECTING_EXTRA_INFO"
         => Has(user_data[user], "retour")
            /\ {"adresse", "materiel"} \subseteq C38_Fields(user)


(***************************************************************************)
(* Claims about the lists as readers, checked under SpecPaged.             *)
(***************************************************************************)
\* the steps that show a page of the list of records or of the status list
C34_ListSteps == {"view", "view_page", "list", "list_page"}

\* the pages the pressed button can name: the first page for the menu's
\* buttons, the page of "Vorige" or "Volgende" of the pressed list
C34_Pages ==
  IF ev'.step \in {"view", "list"} THEN {0}
  ELSE PageButtons(tg.msgs[<<ev'.chat, ev'.msg>>])

\* m is the list of the step for a page, computed from the store and the group
\* of the press
C34_IsOutput(m, page) ==
  \E r \in {get_retours_paginated(db, ev'.chat, page, PER_PAGE, tieOrder)} :
    m = IF ev'.step \in {"view", "view_page"} THEN liste_retours(r, page)
        ELSE liste_statut(r, page)

\* C34: the list handlers leave the store, every operator's user_data and every
\* conversation as they were, and what a handler that returns shows is the
\* list computed from the store, the group of the press and the page of the
\* pressed button.
C34_NavigationStateless ==
  [][(ev'.run # ev.run /\ ev'.step \in C34_ListSteps) =>
       /\ db' = db
       /\ user_data' = user_data
       /\ conv' = conv
       /\ ev'.raised = "none" =>
            \A k \in DOMAIN tg'.msgs :
              (k \notin DOMAIN tg.msgs \/ tg'.msgs[k] # tg.msgs[k])
                => \E page \in C34_Pages : C34_IsOutput(tg'.msgs[k], page)]_vars

\* the second page of the list was shown while the operator had a deletion
\* waiting for its confirmation
C34_Witness ==
  /\ ev.step = "view_page" /\ ev.raised = "none"
  /\ user_data[ev.user] # EmptyDict
  /\ conv[<<ev.chat, ev.user>>] = "SELECTING_ACTION"
  /\ \E k \in Shown(ev.chat, {"viewlist"}) : tg.msgs[k].page = 1


(***************************************************************************)
(* SpecRetouch: a record's status is changed from the status list while    *)
(* the operator's edit of that record waits for the new value.  It starts  *)
(* as SpecEdit does; one edit is open at a time, and the list button is    *)
(* pressed for the record under edit once its field has been chosen.       *)
(***************************************************************************)
\* the messages a chat has got at most when the status list is used
MaxRetouchMsg == 9

RetouchBound == \A chat \in BotChats : tg.next[chat] <= MaxRetouchMsg

\* the records whose status is not the one of the start
RetouchToggled == {r \in db.retours : r \notin EditStore.retours /\
                     \E e \in EditStore.retours : e.id = r.id /\ e.statut # r.statut}

\* "Bewerken" under a record's message while the operator has no edit open
RetouchModifier ==
  /\ \A user \in Users : ~Has(user_data[user], "message_id_editing")
  /\ ButtonModifier

RetouchChangerStatut == RetouchBound /\ PagedChangerStatut

\* the list button of the record under edit, while the new value is awaited
RetouchSelect ==
  /\ RetouchBound
  /\ Cardinality(RetouchToggled) < MaxToggled
  /\ ButtonChangerStatutSelect
  /\ conv[<<ev'.chat, ev'.user>>] = "MODIFYING_FIELD"
  /\ ev'.sel = Get(user_data[ev'.user], "message_id_editing", 0)

NextRetouch ==
  \/ RetouchModifier
  \/ ButtonModif
  \/ TextModification
  \/ RetouchChangerStatut
  \/ RetouchSelect

SpecRetouch == InitEdit /\ [][NextRetouch]_vars

\* a value was submitted and the record was shown again
C33_Edited ==
  /\ Handled("value")
  /\ ev'.notice = "edited"

\* the message of the record under edit, by user_data before the step
C33_Message ==
  <<Get(user_data[ev'.user], "chat_id_editing", ""),
    Get(user_data[ev'.user], "message_id_editing", 0)>>

\* C33: after a field edit has completed, the record's message shows the record
\* with the status the store holds for it, also when that status was changed
\* after the edit was opened.
C33_RenderedWithStoredStatut ==
  [][C33_Edited =>
       \A r \in WhereKey(db'.retours, C33_Message[2], C33_Message[1]) :
         /\ C33_Message \in DOMAIN tg'.msgs
         /\ tg'.msgs[C33_Message]
              = format_retour_message(r.adresse, "", r.materiel,
                                      get_statut_from_retour(r), r.date_creation,
                                      r.description)]_vars

\* the edited record's status was changed from the list while the value was
\* awaited, and its message shows the new value and the changed status
C33_Witness ==
  /\ ev.step = "value" /\ ev.notice = "edited"
  /\ \E r \in RetouchToggled :
       /\ "c" \in {r.adresse, r.materiel, r.description}
       /\ <<r.chat_id, r.message_id>> \in DOMAIN tg.msgs
       /\ tg.msgs[<<r.chat_id, r.message_id>>].kind = "retour"
       /\ tg.msgs[<<r.chat_id, r.message_id>>].statut = r.statut


(***************************************************************************)
(* SpecToggle: two operators press the status-list button of the same      *)
(* record, and their runs of changer_statut_select_handler overlap (two    *)
(* instances of the bot on one database file): the read of the row, the    *)
(* UPDATE and the rendering of a run are steps of their own, each store    *)
(* call a transaction of its own.  Here sess holds the runs, one for each  *)
(* operator: the steps done and the status read; last holds the record the *)
(* buttons name and, after a write, the UPDATE committed last.             *)
(***************************************************************************)
ToggleOperators == {"o1", "o2"}

\* the presses of an operator
MaxToggles == 2

ToggleChat == "g1"

\* the status list of the group, in message 7
TogglePlatform(tie) ==
  [EditPlatform EXCEPT
     !.msgs[<<ToggleChat, 7>>] =
        liste_statut(get_retours_paginated(EditStore, ToggleChat, 0, PER_PAGE, tie), 0)]

InitToggle ==
  /\ db = EditStore
  /\ now = 1
  /\ tieOrder \in TieOrders
  /\ calls = 0
  /\ \E m \in {3, 6} : last = [NoCall EXCEPT !.message_id = m, !.chat_id = ToggleChat]
  /\ paging = NoPaging
  /\ tg = TogglePlatform(tieOrder)
  /\ user_data = [u \in Users |-> EmptyDict]
  /\ conv = [k \in BotChats \X Users |-> "END"]
  /\ ev = NoEvent
  /\ sess = [o \in ToggleOperators |-> [steps |-> <<>>, statut |-> ""]]

\* the run of operator o is at the start of a press
ToggleIdle(o) ==
  /\ Len(sess[o].steps) < 3 * MaxToggles
  /\ IF sess[o].steps = <<>> THEN TRUE
     ELSE Last(sess[o].steps) \in {"show", "not_found"}

\* line 695: the row of the button is read; without a row the run ends
ToggleRead(o) ==
  /\ ToggleIdle(o)
  /\ \E retour \in {get_retour_by_message_id(db, last.message_id, ToggleChat)} :
       sess' = [sess EXCEPT ![o] =
                  IF retour = None
                    THEN [steps |-> @.steps \o <<"read", "not_found">>, statut |-> ""]
                    ELSE [steps |-> Append(@.steps, "read"),
                          statut |-> get_statut_from_retour(retour)]]
  /\ UNCHANGED <<db, now, tieOrder, calls, last, paging, tg, user_data, conv, ev>>

\* lines 708-713: the other status than the one read is written
ToggleWrite(o) ==
  /\ IF sess[o].steps = <<>> THEN FALSE ELSE Last(sess[o].steps) = "read"
  /\ \E u \in {update_statut_in_db(db, last.message_id, ToggleChat,
                                   flip_statut(sess[o].statut))} :
       /\ db' = u.db
       /\ last' = [last EXCEPT !.op = "update_statut_in_db",
                               !.value = flip_statut(sess[o].statut),
                               !.err = u.err]
  /\ sess' = [sess EXCEPT ![o].steps = Append(@, "write")]
  /\ UNCHANGED <<now, tieOrder, calls, paging, tg, user_data, conv, ev>>

\* lines 716-781: the row is read again, the list and the record's message are
\* shown again
ToggleShow(o) ==
  /\ IF sess[o].steps = <<>> THEN FALSE ELSE Last(sess[o].steps) = "write"
  /\ \E f \in {x \in Faults(1..2, ToggleChat) : x = NoFault \/ x.kind = "fail"} :
       \E r \in {statut_toggled(db, tg, f, ToggleChat, 7, 0, tieOrder, EmptyDict,
                                get_retour_by_message_id(db, last.message_id,
                                                         ToggleChat))} :
         /\ tg' = error_handler(r.tg, ToggleChat, r.raised)
         /\ ev' = [NoEvent EXCEPT !.handler = "changer_statut_select_handler",
                                  !.step = "select", !.msg = 7,
                                  !.sel = last.message_id, !.chat = ToggleChat,
                                  !.user = o, !.notice = r.notice,
                                  !.raised = r.raised, !.run = 1 - ev.run]
  /\ sess' = [sess EXCEPT ![o].steps = Append(@, "show")]
  /\ UNCHANGED <<db, now, tieOrder, calls, last, paging, user_data, conv>>

ToggleReads == \E o \in ToggleOperators : ToggleRead(o)

ToggleWrites == \E o \in ToggleOperators : ToggleWrite(o)

ToggleShows == \E o \in ToggleOperators : ToggleShow(o)

NextToggle ==
  \/ ToggleReads
  \/ ToggleWrites
  \/ ToggleShows

SpecToggle == InitToggle /\ [][NextToggle]_vars

\* the rows of the record the buttons name
C32_Rows == WhereKey(db.retours, last.message_id, last.chat_id)

\* C32: however the reads and writes of two operators' toggles of one record
\* interleave, no run ends in an error, the number of records stays the same,
\* and the record's status is the one the last UPDATE wrote.
C32_LastWriteWins ==
  /\ ev.raised = "none"
  /\ last.err = "none"
  /\ Cardinality(db.retours) = Cardinality(EditStore.retours)
  /\ Cardinality(C32_Rows) = 1
  /\ last.op = "update_statut_in_db" => \A r \in C32_Rows : r.statut = last.value

\* both operators read the status before either wrote, both wrote and both
\* runs have ended: the record has the status of the later write
C32_Witness ==
  /\ \A o \in ToggleOperators : sess[o].steps = <<"read", "write", "show">>
  /\ sess["o1"].statut = sess["o2"].statut
  /\ \A r \in C32_Rows : r.statut = last.value /\ r.statut = flip_statut(sess["o1"].statut)


(***************************************************************************)
(* SpecGroups: one operator fills in the form in two groups at a time.     *)
(* The bot is a member of g1 and of s1, neither migrates, and the operator *)
(* types "a" in g1 and "b" in s1, so that a stored value tells the group   *)
(* it was typed in.  context.user_data belongs to the operator, in every   *)
(* group; the conversation state belongs to the operator in one group.     *)
(***************************************************************************)
\* the text the operator types in chat
GroupTexts(chat) == IF chat = "g1" THEN {"a"} ELSE {"b"}

\* a run without a fault, or with a passing failure of one platform call
GroupFaults(sites) == {f \in Faults(sites, "g1") : f = NoFault \/ f.kind = "fail"}

GroupsAfwerken ==
  \E chat \in BotChats, user \in Users : \E f \in GroupFaults(1..2) :
    /\ tg.next[chat] <= MaxMsg
    /\ \E r \in {afwerken(db, tg, f, chat, user_data[user])} :
         Commit("afwerken", chat, user, r, "menu", "", 0, 0)

GroupsAjouter ==
  \E chat \in BotChats, user \in Users : \E f \in GroupFaults(1..3) :
    \E k \in Shown(chat, {"menu"}) :
      /\ tg.next[chat] <= MaxMsg
      /\ \E r \in {button_ajouter_retour(db, tg, f, chat, k[2], user_data[user])} :
           Commit("button_handler", chat, user, r, "start", "", k[2], 0)

GroupsAdresse ==
  \E chat \in BotChats, user \in Users : \E text \in GroupTexts(chat) :
    \E f \in GroupFaults(1..2) :
      /\ conv[<<chat, user>>] = "COLLECTING_ADRESSE"
      /\ tg.next[chat] <= MaxMsg + 1
      /\ \E r \in {collect_adresse(db, tg, f, chat, text, user_data[user])} :
           Commit("collect_adresse", chat, user, r, "adresse", text, 0, 0)

GroupsMateriel ==
  \E chat \in BotChats, user \in Users : \E text \in GroupTexts(chat) :
    \E f \in GroupFaults(1..2) :
      /\ conv[<<chat, user>>] = "COLLECTING_MATERIEL"
      /\ tg.next[chat] <= MaxMsg + 1
      /\ \E r \in {collect_materiel(db, tg, f, chat, text, user_data[user])} :
           Commit("collect_materiel", chat, user, r, "materiel", text, 0, 0)

GroupsExtraInfo ==
  \E chat \in BotChats, user \in Users : \E text \in GroupTexts(chat) :
    \E f \in GroupFaults(1..6) :
      /\ conv[<<chat, user>>] = "COLLECTING_EXTRA_INFO"
      /\ tg.next[chat] <= MaxMsg + 1
      /\ db.seq < MaxId
      /\ \E r \in {collect_extra_info(db, now, tg, f, chat, FALSE, text,
                                      user_data[user])} :
           Commit("collect_extra_info", chat, user, r, "extra", text, 0, 0)

NextGroups ==
  \/ GroupsAfwerken
  \/ GroupsAjouter
  \/ GroupsAdresse
  \/ GroupsMateriel
  \/ GroupsExtraInfo

SpecGroups == Init /\ [][NextGroups]_vars

\* C37, as claimed: a record created by a form is stored under the group in
\* which the form was started and typed in, and holds only what was typed in
\* that group, also while the operator has a form open in another group.
C37_RecordOfOwnGroup ==
  [][C26_Created =>
       /\ ev'.insert[2] = ev'.chat
       /\ \A r \in db'.retours \ db.retours :
            /\ r.chat_id = ev'.chat
            /\ r.adresse \in GroupTexts(ev'.chat)
            /\ r.materiel \in GroupTexts(ev'.chat)]_vars

=============================================================================
